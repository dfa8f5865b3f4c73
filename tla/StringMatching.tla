--------------------------- MODULE StringMatching ---------------------------
(***************************************************************************)
(* A string predicate from the configuration to the answer of the kernel:  *)
(* populate_idx_to_DFA_map builds the table of its string, and             *)
(* compare_string answers for one event string after the other, walking    *)
(* the table character by character (kmp_dfa_search, regex_dfa_search) or  *)
(* comparing in place (string_exact_match, starts_with, ends_with).  The   *)
(* string it looks for is the rule's, or with a field reference another    *)
(* string of the same event.                                               *)
(***************************************************************************)
EXTENDS DfaBuilder

CONSTANTS Predicates,   \* the predicates: [operation, needle, pattern, fieldref]
          MaxNeedle,    \* MAX_NEEDLE_LENGTH: room for the string of a rule
          PathMax,      \* PATH_MAX: room for the string of an event
          DFA_NUM_STATES, \* rows of a table in idx_to_DFA_map
          MaxHaystack   \* longest event string

ASSUME StringAssumption ==
    /\ MaxNeedle \in Nat /\ PathMax \in Nat /\ MaxHaystack \in 0..(PathMax - 1)
    /\ DFA_NUM_STATES \in Nat /\ MaxNeedle < DFA_NUM_STATES
    /\ MAX_REGEX_DFA_STATES <= DFA_NUM_STATES

VARIABLES pred,      \* the predicate of the rule
          dfa,       \* its entry of idx_to_DFA_map and idx_to_accepting_states_map
          pc,        \* "config", "loaded", "search", "done", "refused" or "undefined"
          haystack,  \* the event string being compared
          needle,    \* the string looked for in it
          i,         \* characters of it that the search has read
          state,     \* where the search is in the table
          result     \* the answer

vars == <<pred, dfa, pc, haystack, needle, i, state, result>>

Operations == {"EXACT_MATCH", "CONTAINS", "STARTS_WITH", "ENDS_WITH", "REGEX"}
Haystacks == UNION {[1..n -> Chars] : n \in 0..MaxHaystack}
NoEntry == [outcome |-> "none"]

Init ==
    /\ pred \in Predicates
    /\ dfa = NoEntry /\ pc = "config"
    /\ haystack = <<>> /\ needle = <<>> /\ i = 0 /\ state = 0 /\ result = FALSE

\* Start of owLSM: a string that cannot be built stops it.
populate_idx_to_DFA_map ==
    /\ pc = "config"
    /\ dfa' = CASE pred.operation = "CONTAINS" -> buildKmpDfa(pred.needle)
                [] pred.operation = "REGEX" -> buildRegexDfa(pred.pattern)
                [] OTHER -> NoEntry
    /\ pc' = IF dfa'.outcome \in {"refused", "undefined"} THEN dfa'.outcome ELSE "loaded"
    /\ UNCHANGED <<pred, haystack, needle, i, state, result>>

-----------------------------------------------------------------------------
\* The string looked for is in the event string from this place on; the
\* arrays are filled up with zeros, and the loop covers room characters.
At(s, k) == IF k + 1 \in DOMAIN s THEN s[k + 1] ELSE "NUL"

is_needle_in_haystack_from_index(h, n, index, room) ==
    /\ Len(n) <= Len(h) - index
    /\ \A k \in 0..(room - 1) : k < Len(n) => At(h, index + k) = At(n, k)
    /\ Len(n) <= room

string_exact_match(h, n, room) ==
    Len(n) = Len(h) /\ is_needle_in_haystack_from_index(h, n, 0, room)

Fits(h, n, room) == Len(n) # 0 /\ Len(n) <= Len(h) /\ Len(n) <= room

starts_with(h, n, room) == Fits(h, n, room) /\ \A k \in 0..(Len(n) - 1) : At(h, k) = At(n, k)

ends_with(h, n, room) ==
    Fits(h, n, room) /\ is_needle_in_haystack_from_index(h, n, Len(h) - Len(n), room)

Answer(b) == pc' = "done" /\ result' = b /\ UNCHANGED state
Search(from) == pc' = "search" /\ state' = from /\ UNCHANGED result

\* needle_max_length: the room of a rule's string, or of an event's.
create_sctx == MaxNeedle
create_sctx_fieldref == PathMax - 1

\* The event holds h in the field of the rule, and n in the one it refers to.
\* The rule generator lets a field reference be compared whole, or as a
\* prefix or suffix; its context has no table.
compare_string(h, n) ==
    LET room == IF pred.fieldref THEN create_sctx_fieldref ELSE create_sctx IN
    /\ pc = "loaded"
    /\ haystack' = h /\ needle' = n /\ i' = 0
    /\ CASE pred.operation = "EXACT_MATCH" -> Answer(string_exact_match(h, n, room))
         [] pred.operation = "STARTS_WITH" -> Answer(starts_with(h, n, room))
         [] pred.operation = "ENDS_WITH" -> Answer(ends_with(h, n, room))
         [] pred.operation = "CONTAINS" ->
              IF n = <<>> \/ Len(n) > Len(h) THEN Answer(FALSE) ELSE Search(0)
         [] pred.operation = "REGEX" -> Search(1)
    /\ UNCHANGED <<pred, dfa>>

\* One character of kmp_dfa_search or regex_dfa_search: move where the table
\* has a row, then ask whether the new state accepts.
SearchStep ==
    /\ pc = "search" /\ i < Len(haystack) /\ i < PathMax
    /\ i' = i + 1
    /\ state' = IF state < DFA_NUM_STATES THEN dfa.value[state][haystack[i + 1]] ELSE state
    /\ IF /\ pred.operation = "REGEX" => state' < MAX_REGEX_DFA_STATES
          /\ state' \in dfa.accepting_states
       THEN pc' = "done" /\ result' = TRUE
       ELSE UNCHANGED <<pc, result>>
    /\ UNCHANGED <<pred, dfa, haystack, needle>>

SearchEnd ==
    /\ pc = "search" /\ ~(i < Len(haystack) /\ i < PathMax)
    /\ pc' = "done" /\ result' = FALSE
    /\ UNCHANGED <<pred, dfa, haystack, needle, i, state>>

\* The next event finds an emptied string_utils_ctx.
allocate_empty_string_utils_ctx ==
    /\ pc = "done"
    /\ pc' = "loaded" /\ haystack' = <<>> /\ needle' = <<>>
    /\ i' = 0 /\ state' = 0 /\ result' = FALSE
    /\ UNCHANGED <<pred, dfa>>

Next ==
    \/ populate_idx_to_DFA_map
    \/ \E h \in Haystacks :
         \E n \in IF pred.fieldref THEN Haystacks ELSE {pred.needle} : compare_string(h, n)
    \/ SearchStep
    \/ SearchEnd
    \/ allocate_empty_string_utils_ctx

Spec == Init /\ [][Next]_vars
=============================================================================
