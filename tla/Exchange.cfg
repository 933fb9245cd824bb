CONSTANTS
  None = none
  Empty = empty
  k1 = k1
  k2 = k2
  k3 = k3
  att = att
  minted = minted
  other = other
  assigned = assigned
  Installs <- MCInstalls
  MintedFrom <- MCMintedFrom
  Starts <- MCStarts
  Producers = {k1, k2, k3}
  Holders = {h1, h2}
  Attestors = {att}
  Stranger = kx
  Rightful <- MCRightful
  Verifiers = {v1, v2}
  Nonces = {n1, n2}
  Options <- MCOptions
  MaxActs = 2
SPECIFICATION Spec
SYMMETRY Alike
INVARIANTS TypeOK AnswersTheChallenge HistoryStaysHome AttestedWasSaid SealedWhole HonestAnswerPasses
