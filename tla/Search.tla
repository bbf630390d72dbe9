------------------------------- MODULE Search -------------------------------
(***************************************************************************)
(* A search and the packing of its hits into a byte budget.  The store     *)
(* selects the ranked hits of a scope and packs them into max_bytes of     *)
(* JSON: whole hits first, then the first hit left over that fits when its *)
(* content is cut, at a place found by bisection.  The plugin packs what   *)
(* the store answers a second time, into its own envelope and its own      *)
(* budget, and bisects over characters where the store bisects over bytes. *)
(*                                                                         *)
(* A text is its characters, of which only the byte offsets and the length *)
(* of the encoded hit after each of them are told.  Full-text matching and *)
(* the order of the hits are SQLite's and may be any.                      *)
(***************************************************************************)
EXTENDS Integers, Sequences, FiniteSets, SequencesExt, FiniteSetsExt

CONSTANTS
  Records,
  SessionOf, WorkspaceOf, \* identifiers as the caller of ingest gave them
  Secrets,      \* identifiers that redact_text changes
  NoScope,      \* an argument that is not given
  Chars,        \* characters in the content of a record
  Bytes,        \* bytes before the n-th character of a record's content ends
  Size,         \* per packer: bytes of the encoded hit with the first n characters
  Envelope,     \* per packer: bytes of an answer without hits
  Limits,       \* limits a caller may ask for
  PluginLimit,  \* the most hits the tool asks for
  StoreBudgets, \* values of --max-bytes, the plugin's own among them
  PluginBudgets \* values of _DEFAULT_RECALL_BYTES, of which the program has one

Packers == {"store", "plugin"}
Sessions == {SessionOf[r] : r \in Records}
Workspaces == {WorkspaceOf[r] : r \in Records}
Cuts(r) == 0..Chars[r]

ASSUME RecordsAssumption == IsFiniteSet(Records) /\ NoScope \notin Sessions \union Workspaces
ASSUME TextAssumption ==
  /\ Chars \in [Records -> Nat]
  /\ \A r \in Records :
       /\ Bytes[r] \in [Cuts(r) -> Nat] /\ Bytes[r][0] = 0
       /\ \A m, n \in Cuts(r) : m < n => Bytes[r][m] < Bytes[r][n]
ASSUME SizeAssumption ==
  \A p \in Packers, r \in Records :
    /\ Size[p][r] \in [Cuts(r) -> Nat]
    /\ \A m, n \in Cuts(r) : m < n => Size[p][r][m] <= Size[p][r][n]
ASSUME BudgetAssumption ==
  /\ Envelope \in [Packers -> Nat]
  /\ StoreBudgets \subseteq Nat /\ PluginBudgets \subseteq Nat
  /\ Limits \subseteq Nat /\ PluginLimit \in Nat \ {0}

None == -1

VARIABLES
  pc,
  request,  \* what was asked, and by whom
  found,    \* history: the records whose text matched the query
  by,       \* who is packing
  budget,   \* of the packer
  offered,  \* history: the hits the packer was given, best first
  todo,     \* those it has not yet looked at
  selected, \* hits packed so far: a record and the characters kept of it
  used,     \* bytes they take, each with a separator
  deferred, \* hits that did not fit whole
  hit,      \* the deferred hit that is being cut
  low, high, best \* the bisection: positions, and the characters of the longest cut that fits

asked == <<request, found>>
packer == <<by, budget, offered>>
packing == <<todo, selected, used, deferred>>
cutting == <<hit, low, high, best>>
vars == <<pc, asked, packer, packing, cutting>>

Whole(r) == [record |-> r, kept |-> Chars[r]]

\* active is the session the caller is in, all its wish to search them all.
Requests == [caller : {"cli", "tool", "prefetch"}, query : {"blank", "punctuation", "words"},
             workspace : Workspaces \union {NoScope}, active : Sessions \union {NoScope},
             all : BOOLEAN, limit : Limits, bytes : StoreBudgets]

NoRequest == [caller |-> "nobody"]
NoHit == [record |-> NoScope, kept |-> 0]

Init ==
  /\ pc = "idle"
  /\ request = NoRequest /\ found = {}
  /\ by = "store" /\ budget = 0 /\ offered = <<>>
  /\ todo = <<>> /\ selected = <<>> /\ used = 0 /\ deferred = <<>>
  /\ hit = NoHit /\ low = 0 /\ high = 0 /\ best = None

-----------------------------------------------------------------------------
(* The plugin's calls and MemoryStore::search *)

\* The tool asks for the session it is in unless it was asked for all; recall before a turn
\* never asks for one.
SessionArgument(q) ==
  IF q.caller = "prefetch" \/ (q.caller = "tool" /\ q.all) THEN NoScope ELSE q.active

\* max(1, min(limit, 20)) in the tool, a constant in prefetch.
Limit(q) ==
  IF q.caller = "cli" THEN q.limit
  ELSE IF q.limit < 1 THEN 1 ELSE IF q.limit > PluginLimit THEN PluginLimit ELSE q.limit

\* The arguments each caller can give: all_sessions is the tool's, and the plugin always has
\* a workspace, though not always a session.
Given(q) ==
  /\ q.all => q.caller = "tool"
  /\ q.caller # "cli" => q.workspace # NoScope

\* The tool answers "active session unavailable".  Variant: it goes on without one.
Unchecked(q) == FALSE
Sessionless(q) == q.caller = "tool" /\ ~q.all /\ q.active = NoScope

\* sanitize_identifier: an identifier that holds a secret is stored, and asked for, as its
\* digest.
Sanitized(identifier) == IF identifier \in Secrets THEN [digest |-> identifier] ELSE identifier

\* SHA-256 is injective, and no identifier is spelled like a digest.
ASSUME DigestAssumption ==
  \A i, j \in Sessions \union Workspaces : Sanitized(i) = Sanitized(j) => i = j

Within(identifier, scope) == scope = NoScope \/ Sanitized(identifier) = Sanitized(scope)
InScope(r, q) ==
  Within(WorkspaceOf[r], q.workspace) /\ Within(SessionOf[r], SessionArgument(q))

\* ORDER BY and LIMIT.
Rankings(S, limit) ==
  {[i \in 1 .. Min({limit, Len(s)}) |-> Whole(s[i])] : s \in SetToSeqs(S)}

Start(who, bytes, hits) ==
  /\ pc' = "select"
  /\ by' = who /\ budget' = bytes /\ offered' = hits
  /\ todo' = hits /\ selected' = <<>> /\ used' = 0 /\ deferred' = <<>>

\* SearchRequest::validate; and to_fts_query, which keeps the words alone.
Blank(q) == q.query = "blank"
Wordless(q) == q.query = "punctuation"

Refused(q) == Blank(q) \/ Sessionless(q)

\* A blank query and a missing session are errors; one without words, a limit or a budget of 0 find nothing.
Search(q) ==
  /\ request' = q
  /\ UNCHANGED cutting
  /\ \/ /\ Refused(q)
        /\ pc' = "refused"
        /\ UNCHANGED <<found, packer, packing>>
     \/ /\ ~Refused(q) /\ (Limit(q) = 0 \/ q.bytes = 0 \/ Wordless(q))
        /\ found' = {}
        /\ Start("store", q.bytes, <<>>)
     \/ /\ ~Refused(q) /\ ~Wordless(q) /\ Limit(q) # 0 /\ q.bytes # 0
        /\ found' \in SUBSET Records
        /\ \E hits \in Rankings({r \in found' : InScope(r, q)}, Limit(q)) :
             Start("store", q.bytes, hits)

Ask == pc = "idle" /\ \E q \in Requests : Given(q) /\ Search(q)

-----------------------------------------------------------------------------
(* pack_search_hits and _encode_search_payload *)

\* Bytes of an answer with one more hit.  Variant: the separators are not counted.
Bare(r, n) == Envelope[by] + used + Size[by][r][n] - Len(selected)
Encoding(r, n) == Envelope[by] + used + Size[by][r][n]
\* Variant: the last byte is not used.
Below(r, n) == Encoding(r, n) < budget
Fits(r, n) == Encoding(r, n) <= budget

\* Variant: the separator of the hit is forgotten.
Unseparated(h) ==
  selected' = Append(selected, h) /\ used' = used + Size[by][h.record][h.kept]
Take(h) ==
  /\ selected' = Append(selected, h)
  /\ used' = used + Size[by][h.record][h.kept] + 1

Select ==
  /\ pc = "select" /\ todo # <<>>
  /\ todo' = Tail(todo)
  /\ LET h == Head(todo) IN
     IF Fits(h.record, h.kept) THEN Take(h) /\ UNCHANGED deferred
     ELSE deferred' = Append(deferred, h) /\ UNCHANGED <<selected, used>>
  /\ UNCHANGED <<pc, asked, packer, cutting>>

\* The cut of a text: a character that the position divides goes with it.  The plugin's
\* positions are characters.
LongestWithin(r, kept, position) ==
  CHOOSE n \in 0..kept :
    /\ Bytes[r][n] <= position
    /\ \A m \in 0..kept : Bytes[r][m] <= position => m <= n
Cut(r, kept, position) ==
  IF by = "store" THEN LongestWithin(r, kept, position) ELSE position
\* Variant: the store counts characters.
Characters(r, kept) == kept
Length(r, kept) == IF by = "store" THEN Bytes[r][kept] ELSE kept

\* fit_hit_within_json_budget looks at the whole hit first; it cannot fit by now.
NextDeferred ==
  /\ pc = "select" /\ todo = <<>> /\ deferred # <<>>
  /\ deferred' = Tail(deferred)
  /\ hit' = Head(deferred)
  /\ low' = 0 /\ high' = Length(hit'.record, hit'.kept) /\ best' = None
  /\ pc' = "bisect"
  /\ UNCHANGED <<asked, packer, todo, selected, used>>

\* Variant: the range keeps its middle.
Sticky(middle) == middle
Above(middle) == middle + 1

\* In the store a position is a usize: the range ends before it would go below 0.
\* Variant: it goes below.
Signed(middle) == FALSE
AtZero(middle) == by = "store" /\ middle = 0

Bisect ==
  /\ pc = "bisect" /\ low <= high
  /\ LET middle == low + (high - low) \div 2
         n == Cut(hit.record, hit.kept, middle)
     IN IF Fits(hit.record, n)
        THEN best' = n /\ low' = Above(middle) /\ UNCHANGED <<pc, high>>
        ELSE IF AtZero(middle)
             THEN pc' = "bisected" /\ UNCHANGED <<low, high, best>>
             ELSE high' = middle - 1 /\ UNCHANGED <<pc, low, best>>
  /\ UNCHANGED <<asked, packer, packing, hit>>

Bisected ==
  /\ pc = "bisect" /\ low > high
  /\ pc' = "bisected"
  /\ UNCHANGED <<asked, packer, packing, cutting>>

\* The store drops a hit without content, the plugin does not.  The first cut ends the
\* search.
Worthwhile == best # None /\ (by = "store" => best > 0)

TakeCut ==
  /\ pc = "bisected"
  /\ IF Worthwhile
     THEN Take([hit EXCEPT !.kept = best]) /\ pc' = "packed"
     ELSE pc' = "select" /\ UNCHANGED <<selected, used>>
  /\ UNCHANGED <<asked, packer, todo, deferred, cutting>>

NothingDeferred ==
  /\ pc = "select" /\ todo = <<>> /\ deferred = <<>>
  /\ pc' = "packed"
  /\ UNCHANGED <<asked, packer, packing, cutting>>

\* The tool packs the store's answer again.
Repack ==
  /\ pc = "packed" /\ by = "store" /\ request.caller = "tool"
  /\ \E bytes \in PluginBudgets : Start("plugin", bytes, selected)
  /\ UNCHANGED <<asked, cutting>>

Answer ==
  /\ pc = "packed" /\ (by = "store" => request.caller # "tool")
  /\ pc' = "answered"
  /\ UNCHANGED <<asked, packer, packing, cutting>>

Pack == Select \/ NextDeferred \/ Bisect \/ Bisected \/ TakeCut \/ NothingDeferred
Next == Ask \/ Pack \/ Repack \/ Answer

Spec == Init /\ [][Next]_vars

\* The program does not stop between two of its steps; callers ask when they like.
FairSpec == Spec /\ WF_vars(Pack \/ Repack \/ Answer)

-----------------------------------------------------------------------------
(* Properties *)

\* Bytes of a hit, and of an answer, counted from its hits.
Weight(h) == Size[by][h.record][h.kept]
EncodedLength(hits) ==
  Envelope[by] + SumFunction([i \in DOMAIN hits |-> Weight(hits[i])])
    + IF hits = <<>> THEN 0 ELSE Len(hits) - 1

\* The answer fits max_bytes at every moment of the packing, with its brackets, separators
\* and envelope.
FitsBudget == selected # <<>> => EncodedLength(selected) <= budget

\* The bisection stays within the text, has decided every position outside its range, and
\* remembers the cut at the last position that fits.
Bisection ==
  pc = "bisect" =>
    /\ low \in 0 .. Length(hit.record, hit.kept) + 1
    /\ high \in (IF by = "store" THEN 0 ELSE -1) .. Length(hit.record, hit.kept)
    /\ \A position \in 0..Length(hit.record, hit.kept) :
         /\ position < low => Fits(hit.record, Cut(hit.record, hit.kept, position))
         /\ position > high => ~Fits(hit.record, Cut(hit.record, hit.kept, position))
    /\ best = IF low = 0 THEN None ELSE Cut(hit.record, hit.kept, low - 1)

\* The cut is the longest that fits, to the character, however wide the characters and their
\* escapes are; and nothing fits when none is found.
LongestPrefix ==
  pc = "bisected" =>
    \A n \in 0..hit.kept : Fits(hit.record, n) <=> n <= best

\* What those of the n best hits that are there whole take, each with a separator.
Room(n) ==
  SumFunction([j \in 1..n |-> IF offered[j] \in ToSet(selected) THEN Weight(offered[j]) + 1 ELSE 0])
Justified(i) ==
  offered[i] \in ToSet(selected) \/ Envelope[by] + Room(i - 1) + Weight(offered[i]) > budget

\* A hit is left out, or cut, only if it would not fit whole with the better hits that are
\* there whole; and only the last hit is cut.
NoneLeftOut ==
  pc = "packed" =>
    /\ \A i \in 1 .. Len(selected) - 1 : selected[i] \in ToSet(offered)
    /\ \A i \in DOMAIN offered : Justified(i)

\* What a caller means by its scope, in the identifiers that it knows: the tool a session
\* unless it was asked for all, the command line one only if it names it, recall before a
\* turn the workspace alone (see SessionByDefault).
Meant(r, q) ==
  /\ q.workspace \in {NoScope, WorkspaceOf[r]}
  /\ \/ q.caller = "tool" /\ (q.all \/ q.active = SessionOf[r])
     \/ q.caller = "cli" /\ q.active \in {NoScope, SessionOf[r]}
     \/ q.caller = "prefetch"

\* A search sees the workspace and the sessions its caller means and nothing else, and all of
\* them when the limit allows, however their identifiers were stored; a tool call that has
\* no session and was not asked for all sees none.
ScopeKept ==
  pc \notin {"idle", "refused"} =>
    LET seen == {r \in found : Meant(r, request)}
        hits == {h.record : h \in ToSet(offered)}
    IN /\ hits \subseteq seen
       /\ by = "store" /\ Cardinality(seen) <= Limit(request) => hits = seen

\* Within the plugin recall keeps to the session it is in, unless it was asked for all.
SessionByDefault ==
  pc \notin {"idle", "refused"} /\ request.caller # "cli" /\ ~request.all =>
    \A h \in ToSet(offered) : SessionOf[h.record] = request.active

\* Every search is answered.
Terminates == pc = "select" ~> pc = "answered"
-----------------------------------------------------------------------------
(* The inductive invariant *)

Hits == {h \in [record : Records, kept : Nat] : h.kept <= Chars[h.record]}
RecordsOf(hits) == {hits[i].record : i \in DOMAIN hits}
Cutting == pc \in {"bisect", "bisected"}

Types ==
  /\ pc \in {"idle", "refused", "select", "bisect", "bisected", "packed", "answered"}
  /\ by \in Packers /\ budget \in Nat /\ used \in Nat
  /\ offered \in Seq(Hits) /\ todo \in Seq(Hits) /\ selected \in Seq(Hits) /\ deferred \in Seq(Hits)
  /\ Cutting => hit \in Hits

\* The outcome of a bisection is a cut of the hit, or none.
CutFound == pc = "bisected" => best = None \/ best \in 0..hit.kept

\* Whatever the packer holds is of the records it was given.
Tracked ==
  /\ RecordsOf(selected) \union RecordsOf(todo) \union RecordsOf(deferred) \subseteq RecordsOf(offered)
  /\ Cutting => hit.record \in RecordsOf(offered)

\* used counts the bytes and the separator of every hit, of which the answer has one less.
UsedIsLength == used = SumFunction([i \in DOMAIN selected |-> Weight(selected[i])]) + Len(selected)
UsedFits == selected # <<>> => Envelope[by] + used - 1 <= budget

\* The hits looked at are the best ones; they are there whole, or it is justified that they
\* are not, and those that are there take at least the bytes used.
Seen == Len(offered) - Len(todo)
Accounted ==
  pc = "select" \/ Cutting =>
    /\ Seen \in 0..Len(offered) /\ \A i \in DOMAIN todo : todo[i] = offered[Seen + i]
    /\ Cutting => todo = <<>>
    /\ \A i \in DOMAIN selected : selected[i] \in ToSet(offered)
    /\ used <= Room(Seen)
    /\ \A i \in 1..Seen : Justified(i)

\* Holds at every step of a search and of its packing.
IInv ==
  /\ Types /\ Tracked /\ ScopeKept
  /\ Bisection /\ CutFound /\ LongestPrefix
  /\ UsedIsLength /\ UsedFits /\ Accounted /\ NoneLeftOut
=============================================================================
