SPECIFICATION Spec
CONSTANTS
  Chords <- MCChords
  Slots = {"0"}
  Cap = 1
  Top <- MCTop
  Page = 1
  Networks = 2
INVARIANT CommandsAreFresh
INVARIANT KeyedOnlyByK
INVARIANT FormsStayFresh
 
