---------------------------- MODULE MCStatementGate ----------------------------
EXTENDS StatementGate

CONSTANT q1

\* One edit, two edits, and two of which the second looks dangerous.
SmallEdits == {<<"dml">>, <<"dml", "dml">>, <<"dml", "danger">>}
================================================================================
