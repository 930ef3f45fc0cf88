CONSTANTS
  MAX_REPLACE = 2
  HASHBITS = 2
  CodeOf <- Code
  LOCALE_MAX = 16
  MINIMUM_INSERT_SORT = 3
  PAGE_SIZE = 8
  FULL_SIZE = 1
  ALIGN = 4
  LeadBytes <- Leads
  TailBytes <- Tails
  CodePoints <- Points
  Letters = {"a", "b"}
  Special = {"a", "n", "nl", "bslash", " "}
  ValueChars = {"a", " ", "bslash", "dquote", "nl"}
  Symbols <- SymbolSet
  SortKeys = {1, 2, 3}
  MaxLen = 4
  MaxCalls = 4
  HashCalls = 6
  HashKeys = {0, 1, 2, 4, 8}
  HashOf <- SameNumber
  INITIAL_BUCKETS = 2
  CHAIN_CAPACITY = 2
  UT_INITIAL = 2
  FUNCTION_MAX_ARG = 2
SPECIFICATION Spec
INVARIANTS
  Utf8WellFormed
  TextIsKept
  HotkeyIsHit
  ValuesConserved
  SortsAgree
  ConfigIsKept
  FilesInOrder
  LanguagesMatch
