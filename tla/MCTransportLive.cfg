SPECIFICATION MCFairSpec
PROPERTIES HandshakesComplete FramesMove CallsEnd
CHECK_DEADLOCK FALSE
