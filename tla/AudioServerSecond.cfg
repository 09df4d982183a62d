SPECIFICATION ServerSpec
CONSTANTS
  Sockets = {s1, s2, s3}
  None = None
SYMMETRY SocketSymmetry
INVARIANT AtMostOneOpen
