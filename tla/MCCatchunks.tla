---------------------------- MODULE MCCatchunks ----------------------------
EXTENDS Catchunks
CONSTANT foo   \* a last component that is no segment number
\* versions 1 and 3, and other components before, between and after them
MCVersions == {1, 3}
\* no byte, one full segment, two full segments and one that is not
MCInputs == {<< >>, <<"a", "b">>, <<"a", "b", "c", "d", "e">>}
MCStrayData == {[comp |-> 0, seg |-> 0], [comp |-> 2, seg |-> foo], [comp |-> 1, seg |-> foo]}
============================================================================
