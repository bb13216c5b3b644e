SPECIFICATION Spec
CONSTANTS
  c1 = c1  c2 = c2  c3 = c3
  fd1 = fd1  fd2 = fd2
  Channels <- ThreeChannels
  Fds <- TwoFds
  InitEventListSize = 1
  None = None
SYMMETRY Symmetry
INVARIANTS Registered NeverFatal
