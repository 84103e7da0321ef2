SPECIFICATION PeerSpec
CONSTANTS
  Keypair = {m1, m2, m3, m4, m5, m6, m7, m8, m9, m10, m11, m12, m13, m14, m15, m16, w1, w2, w3, w4}
  Mined = {m1, m2, m3, m4, m5, m6, m7, m8, m9, m10, m11, m12, m13, m14, m15, m16}
  NoKeypair = NoKeypair
CHECK_DEADLOCK FALSE
PROPERTIES
  IdentityKept
  
