------------------------------ MODULE MCPfcLink ------------------------------
EXTENDS PfcLink

CONSTANTS d1, d2

MCDown == {d1, d2}

OneClass   == [class : {1}, size : Size, to : {d1}]
TwoClasses == [class : Class, size : {1}, to : {d1}]
TwoQueues  == [class : {1}, size : {2}, to : MCDown]

MCTraffic == {OneClass, TwoClasses, TwoQueues}
=============================================================================
