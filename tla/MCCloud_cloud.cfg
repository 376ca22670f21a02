CONSTANTS
  None = None
  NodeIds <- MCNodeIds
  NumColors <- MCNumColors
  MaxConnections <- MCMaxConnections
  Zero = Zero
  ReadSize <- MCReadSize
  BufferLimit <- MCBufferLimit
  Sendable <- MCSendable
  MaxSends <- MCMaxSends
SPECIFICATION Spec
INVARIANT TypeOK
INVARIANT SlabWithinPeak
INVARIANT ColorIdentifiesNode
INVARIANT FramesDecodedInOrder
