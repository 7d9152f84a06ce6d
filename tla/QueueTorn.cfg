\* A web thread enqueues, an SPI thread dequeues.
SPECIFICATION Spec
CONSTANTS
  Producers = {"web"}
  Consumers = {"spi"}
  N = 3
  Garbage = Garbage
  MaxPuts = 4
INVARIANT WebToSpi
CHECK_DEADLOCK FALSE
