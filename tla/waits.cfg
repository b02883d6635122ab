SPECIFICATION Spec
PROPERTIES ImagesArrive RequestsEnd UserServed
CHECK_DEADLOCK FALSE
