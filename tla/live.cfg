SPECIFICATION Spec
PROPERTY EverythingIsHandled
PROPERTY LossesAreNoticed
CHECK_DEADLOCK FALSE
