\* Up to two tags, ids on both sides of a byte; an address of each kind and of two kinds.
CONSTANTS
  VLANS = {5, 300}
  MAX_TAGS = 2
  ADDRESSES = {plain, cdn, peer, both}
  CDN = {cdn, both}
  GOOGLE = {peer, both}
  AMAZON = {}
SPECIFICATION ClassifySpec
INVARIANTS VlanOfFrame QrFlagFromHeader NameFromQuestion CountedOnce
