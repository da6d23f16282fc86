\* ui.tsx:176: a plugin-view reset keeps the sidebar folding state the TopBar shows.
CONSTANTS
  k1 = k1
  v1 = v1
  a1 = a1
  f1 = f1
  f2 = f2
  s1 = s1
  t1 = t1
  Null = Null
  Keys <- MC_Keys
  Vals <- MC_Vals
  Ids <- MC_Ids
  Fns <- MC_Fns
  Sections <- MC_Sections
  Themes <- MC_Themes
  MaxSections = 1
  MaxRefs = 2
SPECIFICATION Spec
PROPERTY ResetKeepsFolding
