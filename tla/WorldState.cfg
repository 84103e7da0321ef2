SPECIFICATION Spec
CONSTANTS
  PublicKey = {u1, u2}
  AuctionId = {a1, a2}
  Nonce <- Nonces
  Time <- OneTime
  MaxCreations = 2
SYMMETRY Symmetry
INVARIANTS
  TypeOK
  NonceDiscipline
  
