SPECIFICATION ParserSpec
CONSTANTS
  Path = {"/a/b", "/a_b"}   Method = {"GET", "POST"}
  Raw = {"find", "find!", "find_2", "opaque"}   Text = {"Find", "Opaque"}
  Template = {"trim"}   Unset = unset
  Stem = {"find", "get_path", "post_path"}
  sanitizeToolName <- MCSanitized   nameFromSummary <- MCFromSummary
  pathName <- MCPathName   rank <- MCRank
  Documents <- AllDocuments   Curations <- MCCurations
  root = root   left = left   right = right   str = str   red = red   blue = blue
  num = num   pos = pos   nil = nil   chinese = chinese   hanzi = hanzi   r1 = r1   r2 = r2   r3 = r3
  Name = {root, left, right, str, red, blue, num, pos, nil, chinese, hanzi, r1, r2, r3}
  Conformant <- MCConformant   NameCandidate <- MCNameCandidate   MaxCandidate = 3
  nameRank <- MCNameRank   SchemaOf <- MCSchemaOf
  Children <- childrenOf   Readdress <- readdressed   Uses31 <- uses31
  Files <- MCFiles   Value <- MCValue   MaxDepth = 20   Nothing = nothing
  Source <- MCSource   Rewritten <- MCRewritten
INVARIANTS TypeOK NamesAreUnique SuffixOnlyOnClash SameInputSameTools CurationIsApplied
  ComponentsSurvive LenientIsHonest NothingRejected UnionsAreKept
