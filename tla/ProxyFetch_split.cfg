\* A page of which part comes with its head.
SPECIFICATION Spec
CONSTANT Answers <- OnePage
INVARIANT BodySentOnce
CHECK_DEADLOCK FALSE
