SPECIFICATION FacadeSpec
CONSTANTS
  Indices = {i1, i2}
  NoIndex = NoIndex
  Names = {"set_html", "set_css"}
  Plugins = {"openai", "anthropic"}
  MaxFragments = 4
  MaxChunks = 9
INVARIANTS
  NoKeyError
  FragmentsPaired
  BlocksPaired
  FragmentsSpell
PROPERTY ContractSpec
SYMMETRY Symmetry
CHECK_DEADLOCK FALSE
