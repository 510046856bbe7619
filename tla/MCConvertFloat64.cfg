CONSTANTS
  Bytes = {0, 1}
  Zero = 0
  MaxString = 5
SPECIFICATION ConvertSpec
INVARIANT Float64InDocumentedOrder
CHECK_DEADLOCK FALSE
