---- MODULE MCScheduler ----
EXTENDS Scheduler
CONSTANTS morning, digest
MCKeys == {morning, digest}
MCFixed == {morning}
MCAt == [t \in MCFixed |-> 0]
MCInterval == [t \in {digest} |-> 1]
\* Every property is short of a mishap, and a mishap is never forgotten: nothing is asked of
\* what follows one.
NoMishapYet == mishaps = {}
====
