------------------------------ MODULE MCApiList ------------------------------
EXTENDS ApiList, TLC

\* One class of the first kind of jar is skipped; nothing of the second kind is shown.
Kinds == {{"interface", "missing"}, {"interface", "broken"}}
==============================================================================
