\* Calls of up to five pages, three of which fit into the cache; pages of four
\* bytes have a remainder of one, of three and of a half.
CONSTANTS
  PAGE_SIZE = 4
  CACHE_SIZE = 3
  MaxLen = 20
  MaxPage = 1
SPECIFICATION Spec
INVARIANTS
  TypeOK
  BytesInPlace
  ResultIsCount
