--------------------------- MODULE ConsolePagesProofs ---------------------------
(***************************************************************************)
(* The pages of MCConsolePages together, for every value of the constants: *)
(* what is proved of a page's component holds of it among the others.      *)
(***************************************************************************)
EXTENDS MCConsolePages, PageProofs, RunCountsProofs, SyncedEditorProofs

-----------------------------------------------------------------------------
\* What a page that is not open leaves alone is a step of its own that changes nothing: the
\* behaviours of the pages together are behaviours of each of them.
THEOREM PagesAreThemselves ==
  /\ PagesSpec => CardSpec
  /\ PagesSpec => SpecK8s
  /\ PagesSpec => LogSpec
  /\ PagesSpec => ApprovalSpec
  /\ PagesSpec => EditorSpec
  /\ PagesSpec => SearchSpec
  /\ PagesSpec => CountSpec
<1>1. PagesInit => /\ CardInit /\ InitK8s /\ LogInit /\ ApprovalInit /\ EditorInit /\ SearchInit
                   /\ CountInit
  BY Zenon DEF PagesInit
<1>2. [PagesNext]_<<otherThanBuilder, building, allVars>> =>
        /\ [CardNext]_cardVars /\ [NextK8s]_varsK8s /\ [LogNext]_logVars
        /\ [ApprovalNext]_approvalVars /\ [EditorNext]_allVars /\ [SearchNext]_searchVars
        /\ [CountNext]_countVars
  <2> SUFFICES ASSUME [PagesNext]_<<otherThanBuilder, building, allVars>>
               PROVE  /\ [CardNext]_cardVars /\ [NextK8s]_varsK8s /\ [LogNext]_logVars
                      /\ [ApprovalNext]_approvalVars /\ [EditorNext]_allVars
                      /\ [SearchNext]_searchVars /\ [CountNext]_countVars
    OBVIOUS
  <2>1. CASE PagesNext
    BY <2>1, Zenon DEF PagesNext, NotBuilder, NotCards, NotLogs, NotApprovals, NotSearch, NotCounts
  <2>2. CASE UNCHANGED <<otherThanBuilder, building, allVars>>
    BY <2>2, Zenon DEF otherThanBuilder
  <2> QED BY <2>1, <2>2
<1>3. PagesSpec => CardSpec
  <2>1. PagesInit => CardInit
    BY <1>1
  <2>2. [PagesNext]_<<otherThanBuilder, building, allVars>> => [CardNext]_cardVars
    BY <1>2
  <2> QED BY <2>1, <2>2, PTL DEF PagesSpec, CardSpec
<1>4. PagesSpec => SpecK8s
  <2>1. PagesInit => InitK8s
    BY <1>1
  <2>2. [PagesNext]_<<otherThanBuilder, building, allVars>> => [NextK8s]_varsK8s
    BY <1>2
  <2> QED BY <2>1, <2>2, PTL DEF PagesSpec, SpecK8s
<1>5. PagesSpec => LogSpec
  <2>1. PagesInit => LogInit
    BY <1>1
  <2>2. [PagesNext]_<<otherThanBuilder, building, allVars>> => [LogNext]_logVars
    BY <1>2
  <2> QED BY <2>1, <2>2, PTL DEF PagesSpec, LogSpec
<1>6. PagesSpec => ApprovalSpec
  <2>1. PagesInit => ApprovalInit
    BY <1>1
  <2>2. [PagesNext]_<<otherThanBuilder, building, allVars>> => [ApprovalNext]_approvalVars
    BY <1>2
  <2> QED BY <2>1, <2>2, PTL DEF PagesSpec, ApprovalSpec
<1>7. PagesSpec => EditorSpec
  <2>1. PagesInit => EditorInit
    BY <1>1
  <2>2. [PagesNext]_<<otherThanBuilder, building, allVars>> => [EditorNext]_allVars
    BY <1>2
  <2> QED BY <2>1, <2>2, PTL DEF PagesSpec, EditorSpec
<1>8. PagesSpec => SearchSpec
  <2>1. PagesInit => SearchInit
    BY <1>1
  <2>2. [PagesNext]_<<otherThanBuilder, building, allVars>> => [SearchNext]_searchVars
    BY <1>2
  <2> QED BY <2>1, <2>2, PTL DEF PagesSpec, SearchSpec
<1>9. PagesSpec => CountSpec
  <2>1. PagesInit => CountInit
    BY <1>1
  <2>2. [PagesNext]_<<otherThanBuilder, building, allVars>> => [CountNext]_countVars
    BY <1>2
  <2> QED BY <2>1, <2>2, PTL DEF PagesSpec, CountSpec
<1> QED BY <1>3, <1>4, <1>5, <1>6, <1>7, <1>8, <1>9

\* Whichever page is open, its state has its type.
THEOREM PagesTypeCorrect ==
  ASSUME EditorAssumption
  PROVE  PagesSpec => []PagesTypeOK
<1>1. /\ CardSpec => []CardTypeOK
      /\ SpecK8s => []TypeOKK8s
      /\ LogSpec => []LogTypeOK
      /\ ApprovalSpec => []ApprovalTypeOK
      /\ SearchSpec => []SearchTypeOK
      /\ CountSpec => []CountTypeOK
  BY PagesAssumption, CardsTypeCorrect, MetricsTypeCorrect, LogTypeCorrect, ApprovalTypeCorrect,
     SearchTypeCorrect, CountTypeCorrect, Zenon DEF PagesAssumption
<1>2. EditorSpec => []EditorTypeOK
  BY EditorTypeCorrect
<1>3. ASSUME CardTypeOK, TypeOKK8s, LogTypeOK, ApprovalTypeOK, EditorTypeOK, SearchTypeOK, CountTypeOK
      PROVE  PagesTypeOK
  BY <1>3 DEF PagesTypeOK
<1> QED BY <1>1, <1>2, <1>3, PagesAreThemselves, PTL
=============================================================================
