CONSTANTS
  None = None
  NodeIds <- MCNodeIds
  NumColors <- MCNumColors
  MaxConnections <- MCMaxConnectionsIndex
  Zero = Zero
  ReadSize <- MCReadSize
  BufferLimit <- MCBufferLimit
  Sendable <- MCSendableInfo
  MaxSends <- MCMaxSends
SPECIFICATION Spec
INVARIANT IndexCommandHitsListedNode
