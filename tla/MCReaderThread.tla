--------------------------- MODULE MCReaderThread ---------------------------
EXTENDS ReaderThread

\* Two parts make a frame that can be torn.
MCParts == {"upper", "lower"}
=============================================================================
