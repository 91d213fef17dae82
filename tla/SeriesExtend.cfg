SPECIFICATION Spec
CONSTANT LastBar = 2
INVARIANT HistoryAlways
