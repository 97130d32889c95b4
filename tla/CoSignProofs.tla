------------------------------ MODULE CoSignProofs ------------------------------
(***************************************************************************)
(* What a co-signed proof carries, and that no honest answer is crowded    *)
(* out, for any number of peers, calls, faulty answers and chain changes;  *)
(* that the operator's wallet keeps its promise to concurrent writers; and *)
(* what the price keeper spends.                                           *)
(***************************************************************************)
EXTENDS CoSign, OperatorWallet, PriceKeeper, FiniteSetTheorems, TLAPS

\* The collector's entry for one call
Entry ==
  [pc : {"idle", "collecting", "checking", "proof", "thrown"},
   validated : SUBSET Response, seenExact : SUBSET {ExactKey(r) : r \in Response},
   perConn : [Nodes -> Nat], started : Nat,
   keyCache : [Slots -> Nodes \cup {NoKey, Unread}],
   toCheck : SUBSET Response, bySlot : SUBSET Slots]

\* n signed the call's message, and did so on its own reading if it is honest;
\* S stands for signedBy
Stands(n, c, S) == <<n, c>> \in S /\ n \in Faulty \cup Confirms

\* A signature that verifies is the signer's
Genuine(r, c, S) == r.good => Stands(r.signer, c, S)

\* The validations started, one element each
Used(e) == {u \in Peers \X (1..perConnCap) : u[2] <= e.perConn[u[1]]}

\* What was validated, or waits to be validated again, is genuine, and every slot
\* counted stands for a node that signed
EntrySound(e, c, S) ==
  /\ \A r \in e.validated \cup e.toCheck : r.good /\ Genuine(r, c, S)
  /\ \A s \in Slots : e.keyCache[s] \in Nodes => slotOf[e.keyCache[s]] = s
  /\ \A s \in e.bySlot : \E n \in Nodes : slotOf[n] = s /\ Stands(n, c, S)
  /\ e.pc = "collecting" => Stands(Self, c, S)
  /\ e.pc = "proof" => Cardinality(e.bySlot) >= Threshold

\* Every validation started is charged to its connection, and an honest node's
\* only after its one answer was seen
EntryCaps(e) ==
  /\ \A n \in Nodes : e.perConn[n] <= perConnCap
  /\ e.started = Cardinality(Used(e))
  /\ \A n \in Peers \ Faulty : e.perConn[n] > 0 => ExactKey(OwnResponse(n)) \in e.seenExact

CoSignInv ==
  /\ call \in [Calls -> Entry]
  /\ active \subseteq Slots
  /\ replies \subseteq Calls \X Response
  /\ checks \subseteq Calls \X Response \X {"crypto", "rpc"}
  /\ \A x \in signedBy : x[1] \in Faulty \cup Confirms
  /\ \A x \in replies :
       /\ Genuine(x[2], x[1], signedBy)
       /\ x[2].conn \in Peers
       /\ x[2].conn \notin Faulty => x[2] = OwnResponse(x[2].conn)
  /\ \A x \in checks : Genuine(x[2], x[1], signedBy) /\ (x[3] = "rpc" => x[2].good)
  /\ \A c \in Calls : EntrySound(call[c], c, signedBy) /\ EntryCaps(call[c])

--------------------------------------------------------------------------------
(* One entry. *)

\* A signature stays: what is sound of an entry stays so
LEMMA EntryGrows ==
  ASSUME NEW e, NEW c, NEW S, NEW T, S \subseteq T, EntrySound(e, c, S)
  PROVE  EntrySound(e, c, T)
BY DEF EntrySound, Genuine, Stands

\* The caps depend on what was seen and charged only
LEMMA CapsSame ==
  ASSUME NEW e, NEW f, e.perConn = f.perConn, e.started = f.started,
         e.seenExact = f.seenExact, EntryCaps(e)
  PROVE  EntryCaps(f)
BY Zenon DEF EntryCaps, Used

\* The chain names the node of an active slot
LEMMA KeyOfSlot ==
  ASSUME NEW s \in Slots
  PROVE  KeyAt(s) = NoKey \/ (KeyAt(s) \in Nodes /\ slotOf[KeyAt(s)] = s)
<1>1. \E n \in Nodes : slotOf[n] = s
  BY Zenon DEF Slots
<1> QED
  BY Zenon, <1>1 DEF KeyAt

\* What a node answers is a response
LEMMA OwnTyped ==
  ASSUME NEW n \in Nodes
  PROVE  /\ OwnResponse(n) \in Response /\ OwnResponse(n).good
         /\ OwnResponse(n).signer = n /\ OwnResponse(n).conn = n /\ OwnResponse(n).slot = slotOf[n]
<1>1. slotOf[n] \in Slots
  BY Zenon DEF Slots
<1> QED
  BY <1>1, Zenon DEF OwnResponse, Response

\* The collector resolves with genuine responses and the node's own
LEMMA FinishedKeeps ==
  ASSUME NEW e \in Entry, NEW c, NEW S, EntrySound(e, c, S), EntryCaps(e), e.pc = "collecting",
         NEW V \in SUBSET Response, \A r \in V : r.good /\ Genuine(r, c, S)
  PROVE  Finished(e, V) \in Entry /\ EntrySound(Finished(e, V), c, S) /\ EntryCaps(Finished(e, V))
<1> DEFINE f == Finished(e, V)
<1>1. Self \in Nodes /\ OwnResponse(Self) \in Response /\ OwnResponse(Self).good
      /\ OwnResponse(Self).signer = Self
  BY Zenon, OwnTyped DEF Nodes
<1>2. /\ f \in Entry /\ f.pc = "checking" /\ f.validated = V /\ f.toCheck = V \cup {OwnResponse(Self)}
      /\ f.keyCache = e.keyCache /\ f.bySlot = e.bySlot
      /\ f.perConn = e.perConn /\ f.started = e.started /\ f.seenExact = e.seenExact
  BY ZenonT(30), <1>1 DEF Finished, Entry
<1> HIDE DEF f
<1>3. Genuine(OwnResponse(Self), c, S)
  BY Zenon, <1>1 DEF EntrySound, Genuine
<1>4. EntrySound(f, c, S)
  BY Zenon, <1>1, <1>2, <1>3 DEF EntrySound
<1> QED
  BY Zenon, <1>2, <1>4, CapsSame DEF f

\* Counting a genuine response
LEMMA CountedKeeps ==
  ASSUME NEW e \in Entry, NEW c, NEW S, EntrySound(e, c, S), EntryCaps(e),
         NEW r \in Response, r.good, Genuine(r, c, S)
  PROVE  Counted(e, r) \in Entry /\ EntrySound(Counted(e, r), c, S) /\ EntryCaps(Counted(e, r))
<1> DEFINE V == e.validated \cup {r}
           f == [e EXCEPT !.validated = V]
<1>1. V \in SUBSET Response
  BY Zenon DEF Entry
<1>2. \A q \in V : q.good /\ Genuine(q, c, S)
  BY Zenon DEF EntrySound
<1>3. \/ Counted(e, r) = e
      \/ e.pc = "collecting" /\ Counted(e, r) = Finished(e, V)
      \/ Counted(e, r) = f
  BY Zenon DEF Counted
<1>4. /\ f \in Entry /\ f.pc = e.pc /\ f.validated = V /\ f.toCheck = e.toCheck
      /\ f.keyCache = e.keyCache /\ f.bySlot = e.bySlot
      /\ f.perConn = e.perConn /\ f.started = e.started /\ f.seenExact = e.seenExact
  BY Zenon, <1>1 DEF Entry
<1> HIDE DEF V, f
<1>5. EntrySound(f, c, S) /\ EntryCaps(f)
  BY Zenon, <1>2, <1>4, CapsSame DEF EntrySound
<1> QED
  BY ZenonT(30), <1>1, <1>2, <1>3, <1>4, <1>5, FinishedKeeps

\* A key that was read is remembered
LEMMA CachedKeeps ==
  ASSUME NEW e \in Entry, NEW c, NEW S, EntrySound(e, c, S), EntryCaps(e),
         NEW s \in Slots, NEW k \in Nodes \cup {NoKey, Unread}, k \in Nodes => slotOf[k] = s
  PROVE  LET f == [e EXCEPT !.keyCache[s] = k]
         IN  f \in Entry /\ EntrySound(f, c, S) /\ EntryCaps(f)
<1> DEFINE f == [e EXCEPT !.keyCache[s] = k]
<1>1. /\ f \in Entry /\ f.pc = e.pc /\ f.validated = e.validated /\ f.toCheck = e.toCheck
      /\ f.keyCache = [e.keyCache EXCEPT ![s] = k] /\ f.bySlot = e.bySlot
      /\ f.perConn = e.perConn /\ f.started = e.started /\ f.seenExact = e.seenExact
  BY Zenon DEF Entry
<1>2. e.keyCache \in [Slots -> Nodes \cup {NoKey, Unread}]
  BY Zenon DEF Entry
<1> HIDE DEF f
<1>3. \A t \in Slots : f.keyCache[t] = IF t = s THEN k ELSE e.keyCache[t]
  BY Zenon, <1>1, <1>2
<1>4. EntrySound(f, c, S)
  BY ZenonT(30), <1>1, <1>3 DEF EntrySound
<1> QED
  BY ZenonT(30), <1>1, <1>4, CapsSame DEF f

--------------------------------------------------------------------------------
(* One step. *)

\* A step that replaces one entry by a sound one keeps the entries sound
LEMMA EntriesKeep ==
  ASSUME CoSignInv, NEW c \in Calls, NEW e \in Entry, call' = [call EXCEPT ![c] = e],
         EntrySound(e, c, signedBy'), EntryCaps(e), signedBy \subseteq signedBy'
  PROVE  /\ call' \in [Calls -> Entry]
         /\ \A d \in Calls : EntrySound(call'[d], d, signedBy') /\ EntryCaps(call'[d])
<1>1. call \in [Calls -> Entry]
  BY Zenon DEF CoSignInv
<1>2. call' \in [Calls -> Entry] /\ \A d \in Calls : call'[d] = IF d = c THEN e ELSE call[d]
  BY Zenon, <1>1
<1>3. \A d \in Calls : EntrySound(call[d], d, signedBy') /\ EntryCaps(call[d])
  BY Zenon, EntryGrows DEF CoSignInv
<1> QED
  BY Zenon, <1>2, <1>3

\* A step that replaces no entry
LEMMA EntriesStay ==
  ASSUME CoSignInv, UNCHANGED call, signedBy \subseteq signedBy'
  PROVE  /\ call' \in [Calls -> Entry]
         /\ \A d \in Calls : EntrySound(call'[d], d, signedBy') /\ EntryCaps(call'[d])
BY Zenon, EntryGrows DEF CoSignInv

\* Messages and validations on their way stay genuine
LEMMA FlightStays ==
  ASSUME CoSignInv, signedBy \subseteq signedBy'
  PROVE  /\ \A x \in replies : Genuine(x[2], x[1], signedBy')
         /\ \A x \in checks : Genuine(x[2], x[1], signedBy')
BY Zenon DEF CoSignInv, Genuine, Stands

\* coSign signs for itself and asks its peers
LEMMA BeginKeeps ==
  ASSUME CoSignInv, NEW c \in Calls, CoSignBegin(c)
  PROVE  CoSignInv'
<1> DEFINE f == [call[c] EXCEPT !.pc = "checking", !.toCheck = {OwnResponse(Self)}]
           g == [call[c] EXCEPT !.pc = "collecting"]
<1>1. call \in [Calls -> Entry] /\ call[c] \in Entry /\ call[c].pc = "idle"
      /\ EntrySound(call[c], c, signedBy) /\ EntryCaps(call[c])
  BY Zenon DEF CoSignInv, CoSignBegin
<1>2. signedBy \subseteq signedBy' /\ Stands(Self, c, signedBy') /\ UNCHANGED <<active, replies, checks, crowdedOut>>
  BY Zenon DEF CoSignBegin, WouldSign, Stands
<1>3. Self \in Nodes /\ OwnResponse(Self) \in Response /\ OwnResponse(Self).good
      /\ OwnResponse(Self).signer = Self
  BY Zenon, OwnTyped DEF Nodes
<1>4. Genuine(OwnResponse(Self), c, signedBy')
  BY Zenon, <1>2, <1>3 DEF Genuine
<1>5. EntrySound(call[c], c, signedBy')
  BY <1>1, <1>2, EntryGrows
<1>6. /\ f \in Entry /\ f.pc = "checking" /\ f.validated = call[c].validated
      /\ f.toCheck = {OwnResponse(Self)} /\ f.keyCache = call[c].keyCache /\ f.bySlot = call[c].bySlot
      /\ f.perConn = call[c].perConn /\ f.started = call[c].started /\ f.seenExact = call[c].seenExact
  BY ZenonT(30), <1>1, <1>3 DEF Entry
<1>7. /\ g \in Entry /\ g.pc = "collecting" /\ g.validated = call[c].validated
      /\ g.toCheck = call[c].toCheck /\ g.keyCache = call[c].keyCache /\ g.bySlot = call[c].bySlot
      /\ g.perConn = call[c].perConn /\ g.started = call[c].started /\ g.seenExact = call[c].seenExact
  BY ZenonT(30), <1>1 DEF Entry
<1>8. call' = [call EXCEPT ![c] = f] \/ call' = [call EXCEPT ![c] = g]
  BY ZenonT(30) DEF CoSignBegin
<1> HIDE DEF f, g
<1>9. EntrySound(f, c, signedBy') /\ EntryCaps(f)
  BY ZenonT(30), <1>1, <1>3, <1>4, <1>5, <1>6, CapsSame DEF EntrySound
<1>10. EntrySound(g, c, signedBy') /\ EntryCaps(g)
  BY ZenonT(30), <1>1, <1>2, <1>5, <1>7, CapsSame DEF EntrySound
<1>11. /\ call' \in [Calls -> Entry]
       /\ \A d \in Calls : EntrySound(call'[d], d, signedBy') /\ EntryCaps(call'[d])
  BY Zenon, <1>2, <1>6, <1>7, <1>8, <1>9, <1>10, EntriesKeep
<1>12. \A x \in signedBy' : x[1] \in Faulty \cup Confirms
  BY DEF CoSignInv, CoSignBegin, WouldSign
<1> QED
  BY Zenon, <1>2, <1>11, <1>12, FlightStays DEF CoSignInv

\* A precondition fails
LEMMA RefuseKeeps ==
  ASSUME CoSignInv, NEW c \in Calls, CoSignRefuse(c)
  PROVE  CoSignInv'
<1> DEFINE f == [call[c] EXCEPT !.pc = "thrown"]
<1>1. call[c] \in Entry /\ EntrySound(call[c], c, signedBy) /\ EntryCaps(call[c])
  BY Zenon DEF CoSignInv
<1>2. UNCHANGED <<active, replies, checks, signedBy, crowdedOut>> /\ call' = [call EXCEPT ![c] = f]
  BY Zenon DEF CoSignRefuse, netVars
<1>3. /\ f \in Entry /\ f.pc = "thrown" /\ f.validated = call[c].validated
      /\ f.toCheck = call[c].toCheck /\ f.keyCache = call[c].keyCache /\ f.bySlot = call[c].bySlot
      /\ f.perConn = call[c].perConn /\ f.started = call[c].started /\ f.seenExact = call[c].seenExact
  BY Zenon, <1>1 DEF Entry
<1> HIDE DEF f
<1>4. EntrySound(f, c, signedBy') /\ EntryCaps(f)
  BY ZenonT(30), <1>1, <1>2, <1>3, CapsSame DEF EntrySound
<1>5. /\ call' \in [Calls -> Entry]
      /\ \A d \in Calls : EntrySound(call'[d], d, signedBy') /\ EntryCaps(call'[d])
  BY ZenonT(30), <1>2, <1>3, <1>4, EntriesKeep
<1> QED
  BY Zenon, <1>2, <1>5 DEF CoSignInv

\* The timer fires
LEMMA TimeoutKeeps ==
  ASSUME CoSignInv, NEW c \in Calls, Timeout(c)
  PROVE  CoSignInv'
<1> DEFINE f == Finished(call[c], call[c].validated)
<1>1. call[c] \in Entry /\ EntrySound(call[c], c, signedBy) /\ EntryCaps(call[c]) /\ call[c].pc = "collecting"
  BY Zenon DEF CoSignInv, Timeout
<1>2. UNCHANGED <<active, replies, checks, signedBy, crowdedOut>> /\ call' = [call EXCEPT ![c] = f]
  BY Zenon DEF Timeout, netVars
<1>3. call[c].validated \in SUBSET Response /\ \A r \in call[c].validated : r.good /\ Genuine(r, c, signedBy)
  BY Zenon, <1>1 DEF EntrySound, Entry
<1> HIDE DEF f
<1>4. f \in Entry /\ EntrySound(f, c, signedBy') /\ EntryCaps(f)
  BY ZenonT(30), <1>1, <1>2, <1>3, FinishedKeeps DEF f
<1>5. /\ call' \in [Calls -> Entry]
      /\ \A d \in Calls : EntrySound(call'[d], d, signedBy') /\ EntryCaps(call'[d])
  BY ZenonT(30), <1>2, <1>4, EntriesKeep
<1> QED
  BY Zenon, <1>2, <1>5 DEF CoSignInv

\* The aggregate, or a throw below the threshold
LEMMA AggregateKeeps ==
  ASSUME CoSignInv, NEW c \in Calls, Aggregate(c)
  PROVE  CoSignInv'
<1> DEFINE p == IF QuorumReached(c) THEN "proof" ELSE "thrown"
           f == [call[c] EXCEPT !.pc = p]
<1>1. call[c] \in Entry /\ EntrySound(call[c], c, signedBy) /\ EntryCaps(call[c])
  BY Zenon DEF CoSignInv
<1>2. UNCHANGED <<active, replies, checks, signedBy, crowdedOut>> /\ call' = [call EXCEPT ![c] = f]
  BY Zenon DEF Aggregate, netVars
<1>3. /\ f \in Entry /\ f.pc = p /\ f.validated = call[c].validated
      /\ f.toCheck = call[c].toCheck /\ f.keyCache = call[c].keyCache /\ f.bySlot = call[c].bySlot
      /\ f.perConn = call[c].perConn /\ f.started = call[c].started /\ f.seenExact = call[c].seenExact
  BY Zenon, <1>1 DEF Entry
<1>4. p # "collecting" /\ (p = "proof" => Cardinality(call[c].bySlot) >= Threshold)
  BY Zenon DEF QuorumReached
<1> HIDE DEF f, p
<1>5. EntrySound(f, c, signedBy') /\ EntryCaps(f)
  BY ZenonT(30), <1>1, <1>2, <1>3, <1>4, CapsSame DEF EntrySound
<1>6. /\ call' \in [Calls -> Entry]
      /\ \A d \in Calls : EntrySound(call'[d], d, signedBy') /\ EntryCaps(call'[d])
  BY ZenonT(30), <1>2, <1>3, <1>5, EntriesKeep
<1> QED
  BY Zenon, <1>2, <1>6 DEF CoSignInv

\* A peer signs and replies, or the request is lost
LEMMA RequestKeeps ==
  ASSUME CoSignInv, NEW c \in Calls, NEW p \in Peers, HandleCoSignRequest(c, p) \/ RequestDropped(c, p)
  PROVE  CoSignInv'
<1>1. CASE HandleCoSignRequest(c, p)
  <2> DEFINE own == OwnResponse(p)
  <2>1. /\ UNCHANGED <<active, call, checks, crowdedOut>> /\ signedBy \subseteq signedBy'
        /\ replies' = replies \cup {<<c, own>>} /\ Stands(p, c, signedBy')
    BY Zenon, <1>1 DEF HandleCoSignRequest, WouldSign, Stands
  <2>2. own \in Response /\ own.good /\ own.signer = p /\ own.conn = p
    BY Zenon, OwnTyped DEF Nodes
  <2>3. own = OwnResponse(own.conn)
    BY Zenon, <2>2
  <2> HIDE DEF own
  <2>4. Genuine(own, c, signedBy')
    BY Zenon, <2>1, <2>2 DEF Genuine
  <2>5. replies' \subseteq Calls \X Response
    BY <2>1, <2>2 DEF CoSignInv
  <2>6. \A x \in replies' : /\ Genuine(x[2], x[1], signedBy')
                            /\ x[2].conn \in Peers
                            /\ x[2].conn \notin Faulty => x[2] = OwnResponse(x[2].conn)
    BY <2>1, <2>2, <2>3, <2>4, FlightStays DEF CoSignInv
  <2>7. \A x \in signedBy' : x[1] \in Faulty \cup Confirms
    BY <1>1 DEF CoSignInv, HandleCoSignRequest, WouldSign
  <2> QED
    BY Zenon, <2>1, <2>5, <2>6, <2>7, FlightStays, EntriesStay DEF CoSignInv
<1>2. CASE RequestDropped(c, p)
  BY ZenonT(30), <1>2 DEF RequestDropped, CoSignInv
<1> QED
  BY ZenonT(30), <1>1, <1>2

\* A faulty peer answers anything under its own key, or with what others signed
LEMMA FaultyKeeps ==
  ASSUME CoSignInv, NEW c \in Calls, NEW p \in Peers, NEW n \in Nodes, NEW s \in Slots,
         NEW good \in BOOLEAN, FaultyReply(c, p, n, s, good)
  PROVE  CoSignInv'
<1> DEFINE resp == [conn |-> p, signer |-> n, slot |-> s, sig |-> good \/ n # p, good |-> good]
<1>1. /\ UNCHANGED <<active, call, checks, crowdedOut>> /\ signedBy \subseteq signedBy'
      /\ replies' = replies \cup {<<c, resp>>} /\ p \in Faulty
      /\ good => <<n, c>> \in signedBy'
      /\ n = p \/ <<n, c>> \in signedBy
      /\ signedBy' \subseteq signedBy \cup {<<n, c>>}
  BY Zenon DEF FaultyReply
<1>2. resp \in Response /\ resp.conn = p /\ resp.signer = n /\ (resp.good <=> good)
  BY Zenon DEF Response, Nodes
<1>0. n \in Faulty \cup Confirms /\ \A x \in signedBy' : x[1] \in Faulty \cup Confirms
  <2>1. n \in Faulty \cup Confirms
    BY <1>1 DEF CoSignInv
  <2> QED
    BY <1>1, <2>1 DEF CoSignInv
<1> HIDE DEF resp
<1>3. Genuine(resp, c, signedBy')
  BY Zenon, <1>0, <1>1, <1>2 DEF Genuine, Stands
<1>4. replies' \subseteq Calls \X Response
  BY <1>1, <1>2 DEF CoSignInv
<1>5. \A x \in replies' : /\ Genuine(x[2], x[1], signedBy')
                          /\ x[2].conn \in Peers
                          /\ x[2].conn \notin Faulty => x[2] = OwnResponse(x[2].conn)
  BY <1>1, <1>2, <1>3, FlightStays DEF CoSignInv
<1> QED
  BY Zenon, <1>0, <1>1, <1>4, <1>5, FlightStays, EntriesStay DEF CoSignInv

\* One collected response is validated again
LEMMA RecheckKeeps ==
  ASSUME CoSignInv, NEW c \in Calls, NEW resp \in call[c].toCheck, NEW ok \in BOOLEAN,
         Recheck(c, resp, ok)
  PROVE  CoSignInv'
<1> DEFINE e == call[c]
           s == resp.slot
           k == IF e.keyCache[s] # Unread THEN e.keyCache[s]
                ELSE IF ok THEN KeyAt(s) ELSE Unread
           d == [e EXCEPT !.keyCache[s] = k]
           B == IF BoundTo(k, resp) THEN e.bySlot \cup {s} ELSE e.bySlot
           f == [d EXCEPT !.toCheck = @ \ {resp}, !.bySlot = B]
<1>1. e \in Entry /\ EntrySound(e, c, signedBy) /\ EntryCaps(e) /\ e.pc = "checking"
  BY Zenon DEF CoSignInv, Recheck
<1>2. resp \in Response /\ s \in Slots /\ resp.signer \in Nodes
  BY ZenonT(30), <1>1 DEF Entry, Response
<1>3. k \in Nodes \cup {NoKey, Unread} /\ (k \in Nodes => slotOf[k] = s)
  <2>1. e.keyCache[s] \in Nodes \cup {NoKey, Unread} /\ (e.keyCache[s] \in Nodes => slotOf[e.keyCache[s]] = s)
    BY Zenon, <1>1, <1>2 DEF Entry, EntrySound
  <2>2. NoKey \notin Nodes /\ Unread \notin Nodes
    BY Zenon, CoSignAssumption
  <2> QED
    BY ZenonT(30), <1>2, <2>1, <2>2, KeyOfSlot
<1>4. UNCHANGED <<active, replies, checks, signedBy, crowdedOut>>
  BY Zenon DEF Recheck, netVars
<1>5. call' = [call EXCEPT ![c] = f]
  <2>1. call' = [call EXCEPT ![c].toCheck = @ \ {resp},
                             ![c].keyCache[resp.slot] = k,
                             ![c].bySlot = IF BoundTo(k, resp) THEN @ \cup {resp.slot} ELSE @]
    BY Zenon DEF Recheck
  <2> HIDE DEF k
  <2>2. f = [e EXCEPT !.toCheck = @ \ {resp}, !.keyCache[s] = k,
                      !.bySlot = IF BoundTo(k, resp) THEN @ \cup {s} ELSE @]
    BY ZenonT(30), <1>1 DEF Entry
  <2> QED
    BY ZenonT(30), <2>1, <2>2
<1> HIDE DEF k, d
<1>6. d \in Entry /\ EntrySound(d, c, signedBy) /\ EntryCaps(d)
  BY Zenon, <1>1, <1>2, <1>3, CachedKeeps DEF d
<1>7. /\ d.pc = "checking" /\ d.bySlot = e.bySlot /\ d.toCheck = e.toCheck
  BY Zenon, <1>1 DEF Entry, d
<1>8. B \subseteq Slots
  BY ZenonT(30), <1>1, <1>2 DEF Entry
<1> HIDE DEF B
<1>9. /\ f \in Entry /\ f.pc = "checking" /\ f.validated = d.validated /\ f.toCheck = d.toCheck \ {resp}
      /\ f.keyCache = d.keyCache /\ f.bySlot = B
      /\ f.perConn = d.perConn /\ f.started = d.started /\ f.seenExact = d.seenExact
  BY ZenonT(30), <1>6, <1>7, <1>8 DEF Entry
<1> HIDE DEF f
<1>10. \A t \in B : \E n \in Nodes : slotOf[n] = t /\ Stands(n, c, signedBy)
  <2>1. \A t \in e.bySlot : \E n \in Nodes : slotOf[n] = t /\ Stands(n, c, signedBy)
    BY Zenon, <1>1 DEF EntrySound
  <2>2. Stands(resp.signer, c, signedBy)
    BY Zenon, <1>1 DEF EntrySound, Genuine
  <2>3. BoundTo(k, resp) => slotOf[resp.signer] = s
    BY ZenonT(30), <1>2, <1>3 DEF BoundTo
  <2> QED
    BY ZenonT(30), <1>2, <2>1, <2>2, <2>3 DEF B
<1>11. EntrySound(f, c, signedBy) /\ EntryCaps(f)
  BY ZenonT(30), <1>6, <1>7, <1>9, <1>10, CapsSame DEF EntrySound
<1>12. /\ call' \in [Calls -> Entry]
       /\ \A x \in Calls : EntrySound(call'[x], x, signedBy') /\ EntryCaps(call'[x])
  BY ZenonT(30), <1>4, <1>5, <1>9, <1>11, EntriesKeep
<1> QED
  BY Zenon, <1>4, <1>12 DEF CoSignInv

\* The signature check and the key read of one response
LEMMA CheckKeeps ==
  ASSUME CoSignInv, NEW x \in checks,
         CheckSignature(x[1], x[2]) \/ CheckKey(x[1], x[2]) \/ CheckKeyFails(x[1], x[2])
  PROVE  CoSignInv'
<1> DEFINE c == x[1]
           resp == x[2]
           e == call[c]
           k == KeyAt(resp.slot)
           d == [e EXCEPT !.keyCache[resp.slot] = k]
<1>1. c \in Calls /\ resp \in Response /\ resp.slot \in Slots /\ Genuine(resp, c, signedBy)
  <2>1. c \in Calls /\ resp \in Response /\ Genuine(resp, c, signedBy)
    BY Zenon DEF CoSignInv
  <2> QED
    BY Zenon, <2>1 DEF Response
<1>2. e \in Entry /\ EntrySound(e, c, signedBy) /\ EntryCaps(e)
  BY ZenonT(30), <1>1 DEF CoSignInv
<1>3. UNCHANGED <<active, replies, signedBy, crowdedOut>>
  BY Zenon DEF CheckSignature, CheckKey, CheckKeyFails, netVars
<1>4. resp.good =>
        Counted(e, resp) \in Entry /\ EntrySound(Counted(e, resp), c, signedBy) /\ EntryCaps(Counted(e, resp))
  BY Zenon, <1>1, <1>2, CountedKeeps
<1>5. d \in Entry /\ EntrySound(d, c, signedBy) /\ EntryCaps(d)
  <2>1. k \in Nodes \cup {NoKey, Unread} /\ (k \in Nodes => slotOf[k] = resp.slot)
    BY Zenon, <1>1, KeyOfSlot, CoSignAssumption
  <2> HIDE DEF k
  <2> QED
    BY ZenonT(30), <1>1, <1>2, <2>1, CachedKeeps
<1>6. /\ checks' \subseteq Calls \X Response \X {"crypto", "rpc"}
      /\ \A y \in checks' : Genuine(y[2], y[1], signedBy) /\ (y[3] = "rpc" => y[2].good)
  <2>1. checks' \subseteq checks \/ (resp.good /\ checks' \subseteq checks \cup {<<c, resp, "rpc">>})
    BY Zenon DEF CheckSignature, CheckKey, CheckKeyFails
  <2> QED
    BY <1>1, <2>1 DEF CoSignInv
<1>7. \/ UNCHANGED call
      \/ resp.good /\ call' = [call EXCEPT ![c] = Counted(e, resp)]
      \/ call' = [call EXCEPT ![c] = d]
      \/ resp.good /\ call' = [call EXCEPT ![c] = Counted(d, resp)]
  <2>1. CASE CheckSignature(c, resp)
    BY Zenon, <2>1 DEF CheckSignature
  <2>2. CASE CheckKey(c, resp)
    <3>1. resp.good
      BY Zenon, <2>2 DEF CheckKey, CoSignInv
    <3> QED
      BY ZenonT(30), <2>2, <3>1 DEF CheckKey
  <2>3. CASE CheckKeyFails(c, resp)
    BY Zenon, <2>3 DEF CheckKeyFails
  <2> QED
    BY ZenonT(30), <2>1, <2>2, <2>3
<1>8. resp.good =>
        Counted(d, resp) \in Entry /\ EntrySound(Counted(d, resp), c, signedBy) /\ EntryCaps(Counted(d, resp))
  <2> HIDE DEF d
  <2> QED
    BY ZenonT(30), <1>1, <1>5, CountedKeeps
<1> HIDE DEF d, e, c, resp
<1>9. /\ call' \in [Calls -> Entry]
      /\ \A y \in Calls : EntrySound(call'[y], y, signedBy') /\ EntryCaps(call'[y])
  BY ZenonT(30), <1>1, <1>3, <1>4, <1>5, <1>7, <1>8, EntriesKeep, EntriesStay
<1> QED
  BY ZenonT(30), <1>3, <1>6, <1>9 DEF CoSignInv

\* The validations started form a finite set
LEMMA UsedFinite ==
  /\ IsFiniteSet(Peers \X (1..perConnCap))
  /\ Cardinality(Peers \X (1..perConnCap)) = perConnCap * Cardinality(Peers)
  /\ Cardinality(Peers) \in Nat
  /\ \A e : IsFiniteSet(Used(e)) /\ Cardinality(Used(e)) \in Nat
<1>1. perConnCap \in Nat /\ perConnCap >= 1 /\ IsFiniteSet(Peers) /\ Cardinality(Peers) \in Nat
  BY CoSignAssumption, FS_CardinalityType
<1>2. IsFiniteSet(1..perConnCap) /\ Cardinality(1..perConnCap) = perConnCap
  BY SMTT(30), <1>1, FS_Interval
<1>3. /\ IsFiniteSet(Peers \X (1..perConnCap))
      /\ Cardinality(Peers \X (1..perConnCap)) = Cardinality(Peers) * perConnCap
  BY ZenonT(30), <1>1, <1>2, FS_Product
<1>4. \A e : Used(e) \subseteq Peers \X (1..perConnCap)
  BY Zenon DEF Used
<1>5. \A e : IsFiniteSet(Used(e))
  BY Zenon, <1>3, <1>4, FS_Subset
<1>6. \A e : Cardinality(Used(e)) \in Nat
  BY Zenon, <1>5, FS_CardinalityType
<1> QED
  BY <1>1, <1>3, <1>5, <1>6

\* A validation is started within both caps
LEMMA StartKeeps ==
  ASSUME NEW e \in Entry, NEW c, NEW S, EntrySound(e, c, S), EntryCaps(e),
         NEW r \in Response, r.conn \in Peers, r.conn \notin Faulty => r = OwnResponse(r.conn),
         e.perConn[r.conn] < perConnCap
  PROVE  LET f == [e EXCEPT !.seenExact = @ \cup {ExactKey(r)}, !.perConn[r.conn] = @ + 1, !.started = @ + 1]
         IN  f \in Entry /\ EntrySound(f, c, S) /\ EntryCaps(f)
<1> DEFINE n == r.conn
           f == [e EXCEPT !.seenExact = @ \cup {ExactKey(r)}, !.perConn[n] = @ + 1, !.started = @ + 1]
           u == <<n, e.perConn[n] + 1>>
<1>1. e.perConn \in [Nodes -> Nat] /\ e.started \in Nat /\ n \in Nodes /\ perConnCap \in Nat
  BY Zenon, CoSignAssumption DEF Entry, Nodes
<1>2. /\ f \in Entry /\ f.pc = e.pc /\ f.validated = e.validated /\ f.toCheck = e.toCheck
      /\ f.keyCache = e.keyCache /\ f.bySlot = e.bySlot
      /\ f.perConn = [e.perConn EXCEPT ![n] = @ + 1]
      /\ f.started = e.started + 1 /\ f.seenExact = e.seenExact \cup {ExactKey(r)}
  <2> DEFINE pc0 == [e.perConn EXCEPT ![n] = @ + 1]
  <2>1. pc0 \in [Nodes -> Nat] /\ e.started + 1 \in Nat
    BY <1>1
  <2>2. e.seenExact \cup {ExactKey(r)} \in SUBSET {ExactKey(q) : q \in Response}
    BY Zenon DEF Entry
  <2>3. f = [e EXCEPT !.seenExact = e.seenExact \cup {ExactKey(r)}, !.perConn = pc0, !.started = e.started + 1]
    BY Zenon DEF Entry
  <2> HIDE DEF pc0, f
  <2>4. f \in Entry
    BY ZenonT(30), <2>1, <2>2, <2>3 DEF Entry
  <2>5. /\ f.pc = e.pc /\ f.validated = e.validated /\ f.toCheck = e.toCheck
        /\ f.keyCache = e.keyCache /\ f.bySlot = e.bySlot /\ f.perConn = pc0
        /\ f.started = e.started + 1 /\ f.seenExact = e.seenExact \cup {ExactKey(r)}
    BY Zenon, <2>3 DEF Entry
  <2> QED
    BY Zenon, <2>4, <2>5 DEF pc0
<1> HIDE DEF f
<1>3. \A m \in Nodes : f.perConn[m] = IF m = n THEN e.perConn[n] + 1 ELSE e.perConn[m]
  BY ZenonT(30), <1>1, <1>2
<1>4. EntrySound(f, c, S)
  BY Zenon, <1>2 DEF EntrySound
<1>5. Used(f) = Used(e) \cup {u} /\ u \notin Used(e)
  <2>1. Peers \subseteq Nodes
    BY Zenon DEF Nodes
  <2>2. u \in Peers \X (1..perConnCap) /\ u[1] = n /\ u[2] = e.perConn[n] + 1
    BY <1>1
  <2>3. u \in Used(f) /\ u \notin Used(e)
    BY <1>1, <1>3, <2>2 DEF Used
  <2>4. ASSUME NEW v \in Peers \X (1..perConnCap), v # u
        PROVE  v \in Used(f) <=> v \in Used(e)
    <3>1. v = <<v[1], v[2]>> /\ v[1] \in Peers /\ v[2] \in Nat
      BY <1>1
    <3>2. CASE v[1] = n
      BY <1>1, <1>3, <2>4, <3>1, <3>2 DEF Used
    <3>3. CASE v[1] # n
      BY ZenonT(30), <1>1, <1>3, <2>1, <3>1, <3>3 DEF Used
    <3> QED
      BY Zenon, <3>2, <3>3
  <2>5. Used(f) \subseteq Peers \X (1..perConnCap) /\ Used(e) \subseteq Peers \X (1..perConnCap)
    BY Zenon DEF Used
  <2> HIDE DEF u
  <2> QED
    BY Zenon, <2>2, <2>3, <2>4, <2>5
<1>6. Cardinality(Used(f)) = Cardinality(Used(e)) + 1
  <2>1. IsFiniteSet(Used(e))
    BY Zenon, UsedFinite
  <2> HIDE DEF u
  <2> QED
    BY ZenonT(30), <1>5, <2>1, FS_AddElement
<1>7. \A m \in Nodes : f.perConn[m] <= perConnCap
  BY <1>1, <1>3 DEF EntryCaps
<1>8. \A m \in Peers \ Faulty : f.perConn[m] > 0 => ExactKey(OwnResponse(m)) \in f.seenExact
  BY ZenonT(30), <1>2, <1>3 DEF EntryCaps, Nodes
<1>9. EntryCaps(f)
  BY ZenonT(30), <1>2, <1>6, <1>7, <1>8 DEF EntryCaps
<1> QED
  BY ZenonT(30), <1>2, <1>4, <1>9 DEF f

\* A response arrives: ignored, dropped by a cap, or its validation is started
LEMMA ResponseKeeps ==
  ASSUME CoSignInv, NEW x \in replies, HandleCoSignResponse(x[1], x[2])
  PROVE  CoSignInv'
<1> DEFINE c == x[1]
           resp == x[2]
           e == call[c]
           g == [e EXCEPT !.seenExact = @ \cup {ExactKey(resp)}]
           f == [e EXCEPT !.seenExact = @ \cup {ExactKey(resp)}, !.perConn[resp.conn] = @ + 1, !.started = @ + 1]
<1>1. /\ c \in Calls /\ resp \in Response /\ Genuine(resp, c, signedBy)
      /\ resp.conn \in Peers /\ (resp.conn \notin Faulty => resp = OwnResponse(resp.conn))
  BY Zenon DEF CoSignInv
<1>2. e \in Entry /\ EntrySound(e, c, signedBy) /\ EntryCaps(e)
  BY ZenonT(30), <1>1 DEF CoSignInv
<1>3. UNCHANGED <<active, signedBy>> /\ replies' \subseteq replies
  BY Zenon DEF HandleCoSignResponse
<1>4. /\ checks' \subseteq Calls \X Response \X {"crypto", "rpc"}
      /\ \A y \in checks' : Genuine(y[2], y[1], signedBy) /\ (y[3] = "rpc" => y[2].good)
  <2>1. checks' \subseteq checks \cup {<<c, resp, "crypto">>}
    BY Zenon DEF HandleCoSignResponse
  <2> QED
    BY <1>1, <2>1 DEF CoSignInv
<1>5. /\ g \in Entry /\ g.pc = e.pc /\ g.validated = e.validated /\ g.toCheck = e.toCheck
      /\ g.keyCache = e.keyCache /\ g.bySlot = e.bySlot
      /\ g.perConn = e.perConn /\ g.started = e.started /\ g.seenExact = e.seenExact \cup {ExactKey(resp)}
  BY ZenonT(30), <1>1, <1>2 DEF Entry
<1>6. \/ UNCHANGED call
      \/ call' = [call EXCEPT ![c] = g]
      \/ ~CapsReached(c, resp) /\ call' = [call EXCEPT ![c] = f]
  BY Zenon DEF HandleCoSignResponse
<1>7. EntrySound(g, c, signedBy) /\ EntryCaps(g)
  <2> HIDE DEF g
  <2>1. EntrySound(g, c, signedBy)
    BY ZenonT(30), <1>2, <1>5 DEF EntrySound
  <2>2. EntryCaps(g)
    BY Zenon, <1>2, <1>5 DEF EntryCaps, Used
  <2> QED
    BY ZenonT(30), <2>1, <2>2
<1>8. ~CapsReached(c, resp) => f \in Entry /\ EntrySound(f, c, signedBy) /\ EntryCaps(f)
  <2>1. ~CapsReached(c, resp) => e.perConn[resp.conn] < perConnCap
    <3>1. e.perConn[resp.conn] \in Nat /\ perConnCap \in Nat
      BY ZenonT(30), <1>1, <1>2, CoSignAssumption DEF Entry, Nodes
    <3> QED
      BY <3>1 DEF CapsReached
  <2> HIDE DEF e, resp, c
  <2> QED
    BY ZenonT(30), <1>1, <1>2, <2>1, StartKeeps
<1> HIDE DEF f, g, e, c, resp
<1>9. /\ call' \in [Calls -> Entry]
      /\ \A y \in Calls : EntrySound(call'[y], y, signedBy') /\ EntryCaps(call'[y])
  BY SMTT(30), <1>1, <1>3, <1>5, <1>6, <1>7, <1>8, EntriesKeep, EntriesStay
<1> QED
  BY Zenon, <1>3, <1>4, <1>9 DEF CoSignInv

\* Every step keeps the invariant
LEMMA NextCoSign == CoSignInv /\ [CoSignNext]_coSignVars => CoSignInv'
<1> SUFFICES ASSUME CoSignInv, [CoSignNext]_coSignVars
             PROVE  CoSignInv'
  BY Zenon
<1>1. ASSUME NEW s \in Slots, SetActive(s)
      PROVE  CoSignInv'
  BY Zenon, <1>1 DEF SetActive, CoSignInv, netVars
<1>2. ASSUME NEW x \in replies, ReplyLost(x)
      PROVE  CoSignInv'
  BY Zenon, <1>2 DEF ReplyLost, CoSignInv
<1>3. CASE UNCHANGED coSignVars
  BY ZenonT(30), <1>3 DEF coSignVars, netVars, CoSignInv
<1> QED
  BY ZenonT(30), <1>1, <1>2, <1>3, BeginKeeps, RefuseKeeps, TimeoutKeeps, AggregateKeeps, RequestKeeps,
     FaultyKeeps, RecheckKeeps, ResponseKeeps, CheckKeeps DEF CoSignNext

\* Nothing is asked or answered at the start
LEMMA InitCoSign == CoSignInit => CoSignInv
<1> SUFFICES ASSUME CoSignInit
             PROVE  CoSignInv
  BY Zenon
<1>1. /\ NoCall \in Entry /\ NoCall.pc = "idle" /\ NoCall.validated = {} /\ NoCall.toCheck = {}
      /\ NoCall.bySlot = {} /\ NoCall.keyCache = [s \in Slots |-> Unread]
      /\ NoCall.perConn = [n \in Nodes |-> 0] /\ NoCall.started = 0
  BY ZenonT(30) DEF NoCall, Entry
<1> HIDE DEF NoCall
<1>2. \A c : EntrySound(NoCall, c, signedBy)
  BY ZenonT(30), <1>1, CoSignAssumption DEF EntrySound
<1>3. EntryCaps(NoCall)
  <2>1. \A n \in Nodes : NoCall.perConn[n] = 0
    BY Zenon, <1>1
  <2>2. Used(NoCall) = {}
    BY <2>1, CoSignAssumption DEF Used, Nodes
  <2>3. Cardinality(Used(NoCall)) = 0
    BY Zenon, <2>2, FS_EmptySet
  <2> QED
    BY <1>1, <2>1, <2>3, CoSignAssumption DEF EntryCaps, Nodes
<1> QED
  BY Zenon, <1>1, <1>2, <1>3 DEF CoSignInit, CoSignInv

\* A proof carries a threshold of slots, each signed for under its registered key,
\* whatever peers answer, whatever is lost or late and whatever the chain changes
\* meanwhile, for any number of peers and calls
THEOREM QuorumSoundHolds == CoSignSpec => []QuorumSound
<1>1. CoSignInv => QuorumSound
  BY ZenonT(30) DEF CoSignInv, EntrySound, Stands, QuorumSound
<1> QED
  BY <1>1, InitCoSign, NextCoSign, PTL DEF CoSignSpec

\* An honest answer finds both caps open: its connection was not charged before
LEMMA HonestFits ==
  ASSUME CoSignInv, NEW x \in replies, x[2].conn \notin Faulty,
         ExactKey(x[2]) \notin call[x[1]].seenExact
  PROVE  ~CapsReached(x[1], x[2])
<1> DEFINE c == x[1]
           n == x[2].conn
           e == call[c]
           all == Peers \X (1..perConnCap)
           u == <<n, 1>>
<1>1. c \in Calls /\ n \in Peers \ Faulty /\ n \in Nodes /\ x[2] = OwnResponse(n)
  BY Zenon DEF CoSignInv, Nodes
<1>2. EntryCaps(e) /\ e.perConn \in [Nodes -> Nat]
  BY Zenon, <1>1 DEF CoSignInv, Entry
<1>3. perConnCap \in Nat /\ perConnCap > 0 /\ maxValidations \in Nat
  BY CoSignAssumption
<1>4. e.perConn[n] = 0
  BY <1>1, <1>2 DEF EntryCaps
<1>5. u \in all /\ Used(e) \subseteq all \ {u}
  BY <1>1, <1>3, <1>4 DEF Used
<1>6. IsFiniteSet(all) /\ Cardinality(all) = perConnCap * Cardinality(Peers) /\ Cardinality(all) \in Nat
  BY Zenon, UsedFinite, FS_CardinalityType
<1> HIDE DEF all, u
<1>7. IsFiniteSet(all \ {u}) /\ Cardinality(all \ {u}) = Cardinality(all) - 1
  BY ZenonT(30), <1>5, <1>6, FS_RemoveElement
<1>8. Cardinality(Used(e)) <= Cardinality(all \ {u})
  BY ZenonT(30), <1>5, <1>7, FS_Subset
<1>9. e.started < maxValidations
  <2>1. Cardinality(Used(e)) \in Nat /\ e.started = Cardinality(Used(e))
    BY Zenon, <1>2, UsedFinite DEF EntryCaps
  <2>2. Cardinality(all) <= maxValidations
    BY ZenonT(30), <1>6, CapsAssumption
  <2> QED
    BY <1>3, <1>6, <1>7, <1>8, <2>1, <2>2
<1>10. e.started \in Nat
  BY Zenon, <1>2, UsedFinite DEF EntryCaps
<1> QED
  BY <1>3, <1>4, <1>9, <1>10 DEF CapsReached

\* However much faulty peers answer, no honest answer is dropped by a cap
THEOREM HonestNotCrowdedOutHolds == CoSignSpec => []HonestNotCrowdedOut
<1>1. CoSignInit => HonestNotCrowdedOut
  BY Zenon DEF CoSignInit, HonestNotCrowdedOut
<1>2. ASSUME CoSignInv, HonestNotCrowdedOut, [CoSignNext]_coSignVars
      PROVE  HonestNotCrowdedOut'
  <2>1. CASE \E x \in replies : HandleCoSignResponse(x[1], x[2])
    <3> PICK x \in replies : HandleCoSignResponse(x[1], x[2])
      BY ZenonT(30), <2>1
    <3>1. UNCHANGED crowdedOut \/ (/\ ExactKey(x[2]) \notin call[x[1]].seenExact /\ CapsReached(x[1], x[2])
                                   /\ crowdedOut' = crowdedOut \cup {<<x[1], x[2].conn>>})
      BY Zenon DEF HandleCoSignResponse
    <3>2. ~UNCHANGED crowdedOut => x[2].conn \in Faulty
      BY Zenon, <1>2, <3>1, HonestFits
    <3> QED
      BY <1>2, <3>1, <3>2 DEF HonestNotCrowdedOut
  <2>2. CASE UNCHANGED crowdedOut
    BY ZenonT(30), <1>2, <2>2 DEF HonestNotCrowdedOut
  <2>3. (\E x \in replies : HandleCoSignResponse(x[1], x[2])) \/ UNCHANGED crowdedOut
    <3>1. \A sl : SetActive(sl) => UNCHANGED crowdedOut
      BY Zenon DEF SetActive
    <3>2. \A c : CoSignBegin(c) \/ CoSignRefuse(c) \/ Timeout(c) \/ Aggregate(c) => UNCHANGED crowdedOut
      BY Zenon DEF CoSignBegin, CoSignRefuse, Timeout, Aggregate
    <3>3. \A c, p : HandleCoSignRequest(c, p) \/ RequestDropped(c, p) => UNCHANGED crowdedOut
      BY ZenonT(30) DEF HandleCoSignRequest, RequestDropped
    <3>4. ASSUME NEW c, NEW p, NEW n, NEW sl, NEW good, FaultyReply(c, p, n, sl, good)
          PROVE  UNCHANGED crowdedOut
      BY Zenon, <3>4 DEF FaultyReply
    <3>5. \A c, r, ok : Recheck(c, r, ok) => UNCHANGED crowdedOut
      BY DEF Recheck
    <3>6. \A x : ReplyLost(x) => UNCHANGED crowdedOut
      BY Zenon DEF ReplyLost
    <3>7. \A c, r : CheckSignature(c, r) \/ CheckKey(c, r) \/ CheckKeyFails(c, r) => UNCHANGED crowdedOut
      BY ZenonT(30) DEF CheckSignature, CheckKey, CheckKeyFails
    <3>8. UNCHANGED coSignVars => UNCHANGED crowdedOut
      BY Zenon DEF coSignVars
    <3> QED
      BY ZenonT(30), <1>2, <3>1, <3>2, <3>3, <3>4, <3>5, <3>6, <3>7, <3>8 DEF CoSignNext
  <2> QED
    BY ZenonT(30), <2>1, <2>2, <2>3
<1> QED
  BY <1>1, <1>2, InitCoSign, NextCoSign, PTL DEF CoSignSpec

(***************************************************************************)
(* The operator's wallet implements the promise its callers rely on.       *)
(***************************************************************************)
\* Where a write stands
WriteStates ==
  {"idle", "preflight", "queued", "sending", "waiting", "expired", "requeue", "reconcile",
   "ok", "failed"}

(* What the refinement maps status and landed to: a call between its start *)
(* and its return is open, and the ones with a mined transaction that did  *)
(* not revert have landed.                                                 *)
CallStatus == [o \in Ops |-> IF pc[o] \in {"idle", "ok", "failed"} THEN pc[o] ELSE "open"]
LandedOps == {mined[i].tx.op : i \in {j \in 1..Len(mined) : mined[j].ok}}

(* What the mapping needs: only calls that were made have a transaction.   *)
WalletInv ==
  /\ pc \in [Ops -> WriteStates]
  /\ \E S : mined \in Seq(S)
  /\ \A t \in pool : t.op \in Ops /\ pc[t.op] # "idle"

\* A step of the promise, or a stutter, under the mapping
PromiseStep == [Promise!PromiseNext]_(Promise!pvars)

(* The steps of the promise under the mapping.                             *)
LEMMA PromiseSteps ==
  /\ CallStatus' = CallStatus /\ LandedOps' = LandedOps => PromiseStep
  /\ \A o \in Ops :
       /\ /\ CallStatus[o] = "idle" /\ CallStatus' = [CallStatus EXCEPT ![o] = "failed"]
          /\ LandedOps' = LandedOps
          => PromiseStep
       /\ /\ CallStatus[o] = "idle" /\ CallStatus' = [CallStatus EXCEPT ![o] = "open"]
          /\ LandedOps' = LandedOps
          => PromiseStep
       /\ /\ CallStatus[o] # "idle" /\ o \notin LandedOps
          /\ LandedOps' = LandedOps \cup {o} /\ CallStatus' = CallStatus
          => PromiseStep
       /\ /\ CallStatus[o] = "open" /\ o \in LandedOps
          /\ CallStatus' = [CallStatus EXCEPT ![o] = "ok"] /\ LandedOps' = LandedOps
          => PromiseStep
       /\ /\ CallStatus[o] = "open" /\ CallStatus' = [CallStatus EXCEPT ![o] = "failed"]
          /\ LandedOps' = LandedOps
          => PromiseStep
<1>1. CallStatus' = CallStatus /\ LandedOps' = LandedOps => PromiseStep
  BY Zenon DEF PromiseStep, Promise!pvars, CallStatus, LandedOps
<1>2. \A o \in Ops :
        Promise!Refuse(o) \/ Promise!Open(o) \/ Promise!Land(o) \/ Promise!Confirm(o)
          \/ Promise!Fail(o) => PromiseStep
  BY Zenon DEF PromiseStep, Promise!PromiseNext
<1> SUFFICES ASSUME NEW o \in Ops
             PROVE  PromiseSteps!2!(o)
  BY Zenon, <1>1
<1>3. /\ Promise!Refuse(o) = (/\ CallStatus[o] = "idle"
                              /\ CallStatus' = [CallStatus EXCEPT ![o] = "failed"]
                              /\ LandedOps' = LandedOps)
      /\ Promise!Open(o) = (/\ CallStatus[o] = "idle"
                            /\ CallStatus' = [CallStatus EXCEPT ![o] = "open"]
                            /\ LandedOps' = LandedOps)
  BY Zenon DEF Promise!Refuse, Promise!Open, CallStatus, LandedOps
<1>4. Promise!Land(o) = (/\ CallStatus[o] # "idle" /\ o \notin LandedOps
                         /\ LandedOps' = LandedOps \cup {o} /\ CallStatus' = CallStatus)
  BY Zenon DEF Promise!Land, CallStatus, LandedOps
<1>5. /\ Promise!Confirm(o) = (/\ CallStatus[o] = "open" /\ o \in LandedOps
                               /\ CallStatus' = [CallStatus EXCEPT ![o] = "ok"]
                               /\ LandedOps' = LandedOps)
      /\ Promise!Fail(o) = (/\ CallStatus[o] = "open"
                            /\ CallStatus' = [CallStatus EXCEPT ![o] = "failed"]
                            /\ LandedOps' = LandedOps)
  BY Zenon DEF Promise!Confirm, Promise!Fail, CallStatus, LandedOps
<1> QED
  BY Zenon, <1>1, <1>2, <1>3, <1>4, <1>5

(* A call that goes on without mining anything is a step of the promise:   *)
(* it opens, is refused, confirms what has landed, fails, or stays open.   *)
LEMMA CallMoves ==
  ASSUME WalletInv, NEW o \in Ops, NEW p \in WriteStates \ {"idle"},
         pc' = [pc EXCEPT ![o] = p], mined' = mined, \A t \in pool' : t \in pool \/ t.op = o,
         pc[o] \notin {"ok", "failed"}, pc[o] = "idle" => p # "ok", p = "ok" => o \in LandedOps
  PROVE  WalletInv' /\ PromiseStep
<1> DEFINE new == IF p \in {"ok", "failed"} THEN p ELSE "open"
<1>1. pc \in [Ops -> WriteStates]
  BY Zenon DEF WalletInv
<1>2. CallStatus' = [CallStatus EXCEPT ![o] = new]
  <2>1. \A x \in Ops : pc'[x] = IF x = o THEN p ELSE pc[x]
    BY Zenon, <1>1
  <2>2. \A x \in Ops : CallStatus'[x] = IF x = o THEN new ELSE CallStatus[x]
    BY Zenon, <2>1 DEF CallStatus
  <2>3. /\ CallStatus = [x \in Ops |-> CallStatus[x]]
        /\ CallStatus' = [x \in Ops |-> CallStatus'[x]]
    BY Zenon DEF CallStatus
  <2> HIDE DEF new
  <2> QED
    BY Zenon, <2>2, <2>3
<1>3. LandedOps' = LandedOps
  BY Zenon DEF LandedOps
<1>4. CallStatus[o] = (IF pc[o] = "idle" THEN "idle" ELSE "open") /\ DOMAIN CallStatus = Ops
  BY Zenon, <1>1 DEF CallStatus
<1>5. ASSUME pc[o] = "idle" PROVE PromiseStep
  <2>1. CallStatus[o] = "idle" /\ (new = "failed" \/ new = "open")
    BY ZenonT(30), <1>4, <1>5
  <2> HIDE DEF new
  <2>2. CASE new = "failed"
    BY Zenon, <1>2, <1>3, <2>1, <2>2, PromiseSteps
  <2>3. CASE new = "open"
    BY Zenon, <1>2, <1>3, <2>1, <2>3, PromiseSteps
  <2> QED
    BY Zenon, <2>1, <2>2, <2>3
<1>6. ASSUME pc[o] # "idle" PROVE PromiseStep
  <2>1. CASE p \in {"ok", "failed"}
    <3>1. CallStatus[o] = "open" /\ (new = "failed" \/ (new = "ok" /\ o \in LandedOps))
      BY ZenonT(30), <1>4, <1>6, <2>1
    <3> HIDE DEF new
    <3>2. CASE new = "failed"
      BY Zenon, <1>2, <1>3, <3>1, <3>2, PromiseSteps
    <3>3. CASE new = "ok" /\ o \in LandedOps
      BY Zenon, <1>2, <1>3, <3>1, <3>3, PromiseSteps
    <3> QED
      BY Zenon, <3>1, <3>2, <3>3
  <2>2. CASE p \notin {"ok", "failed"}
    <3>1. CallStatus' = CallStatus
      <4>1. CallStatus = [x \in Ops |-> CallStatus[x]]
        BY Zenon DEF CallStatus
      <4>2. CallStatus[o] = new
        BY ZenonT(30), <1>4, <1>6, <2>2
      <4> HIDE DEF new
      <4> QED
        BY Zenon, <1>2, <4>1, <4>2
    <3> QED
      BY Zenon, <1>3, <3>1, PromiseSteps
  <2> QED
    BY Zenon, <2>1, <2>2
<1>7. WalletInv'
  BY Zenon, <1>1 DEF WalletInv
<1> QED
  BY Zenon, <1>5, <1>6, <1>7

(* A receipt or a reconciliation finds a transaction of the call.          *)
LEMMA ReconciledLanded ==
  ASSUME NEW a, Reconciled(a)
  PROVE  a \in LandedOps
BY Zenon DEF Reconciled, SentBy, LandedOps

(* Every step of a slash write is a step of the promise.                   *)
LEMMA SlashMoves ==
  ASSUME WalletInv, NEW s \in Slashes, SlashCall(s) \/ SlashStep(s)
  PROVE  WalletInv' /\ PromiseStep
<1> USE DEF net, locals, Goto, WriteStates
<1>0. s \in Ops
  BY Zenon DEF Ops
<1>1. CASE SlashCall(s)
  <2>1. /\ pc[s] = "idle" /\ pc' = [pc EXCEPT ![s] = "preflight"]
        /\ mined' = mined /\ pool' = pool
    BY Zenon, <1>1 DEF SlashCall
  <2> QED
    BY Zenon, <1>0, <2>1, CallMoves
<1>2. CASE SlashPreflight(s)
  <2>1. pc[s] = "preflight" /\ mined' = mined /\ pool' = pool
    BY ZenonT(30), <1>2 DEF SlashPreflight
  <2>2. CASE pc' = [pc EXCEPT ![s] = "queued"]
    BY Zenon, <1>0, <2>1, <2>2, CallMoves
  <2>3. CASE pc' = [pc EXCEPT ![s] = "failed"]
    BY Zenon, <1>0, <2>1, <2>3, CallMoves
  <2> QED
    BY Zenon, <1>2, <2>2, <2>3 DEF SlashPreflight
<1>3. CASE SlashNonce(s)
  <2>1. /\ pc[s] = "queued" /\ pc' = [pc EXCEPT ![s] = "sending"]
        /\ mined' = mined /\ pool' = pool
    BY Zenon, <1>3 DEF SlashNonce
  <2> QED
    BY Zenon, <1>0, <2>1, CallMoves
<1>4. CASE SlashSend(s)
  <2>1. pc[s] = "sending" /\ mined' = mined
    BY Zenon, <1>4 DEF SlashSend
  <2>2. \A u \in pool' : u \in pool \/ u.op = s
    BY <1>4 DEF SlashSend, Accept
  <2>3. CASE pc' = [pc EXCEPT ![s] = "waiting"]
    BY Zenon, <1>0, <2>1, <2>2, <2>3, CallMoves
  <2>4. CASE pc' = [pc EXCEPT ![s] = "failed"]
    BY Zenon, <1>0, <2>1, <2>2, <2>4, CallMoves
  <2>5. pc' = [pc EXCEPT ![s] = "waiting"] \/ pc' = [pc EXCEPT ![s] = "failed"]
    BY Zenon, <1>4 DEF SlashSend
  <2> QED
    BY Zenon, <2>3, <2>4, <2>5
<1>5. CASE SlashReceipt(s)
  <2>1. pc[s] = "waiting" /\ mined' = mined /\ pool' = pool
    BY Zenon, <1>5 DEF SlashReceipt
  <2>2. PICK i \in 1..Len(mined) :
          mined[i].tx.op = s /\ pc' = [pc EXCEPT ![s] = IF mined[i].ok THEN "ok" ELSE "failed"]
    BY Zenon, <1>5 DEF SlashReceipt
  <2>3. CASE mined[i].ok
    <3>1. s \in LandedOps /\ pc' = [pc EXCEPT ![s] = "ok"]
      BY Zenon, <2>2, <2>3 DEF LandedOps
    <3> QED
      BY Zenon, <1>0, <2>1, <3>1, CallMoves
  <2>4. CASE ~mined[i].ok
    <3>1. pc' = [pc EXCEPT ![s] = "failed"]
      BY ZenonT(30), <2>2, <2>4
    <3> QED
      BY Zenon, <1>0, <2>1, <3>1, CallMoves
  <2> QED
    BY Zenon, <2>3, <2>4
<1> QED
  BY Zenon, <1>1, <1>2, <1>3, <1>4, <1>5 DEF SlashStep

(* The same for attestLiveness, its resends, recoveries and reconciliation. *)
LEMMA AttestMoves ==
  ASSUME WalletInv, NEW a \in Attests, AttestCall(a) \/ AttestStep(a)
  PROVE  WalletInv' /\ PromiseStep
<1> USE DEF net, locals, Goto, WriteStates
<1>0. a \in Ops
  BY Zenon DEF Ops
<1>1. CASE AttestCall(a)
  <2>1. pc[a] = "idle" /\ mined' = mined /\ pool' = pool
    BY <1>1 DEF AttestCall
  <2>2. CASE pc' = [pc EXCEPT ![a] = "failed"]
    BY Zenon, <1>0, <2>1, <2>2, CallMoves
  <2>3. CASE pc' = [pc EXCEPT ![a] = "preflight"]
    BY Zenon, <1>0, <2>1, <2>3, CallMoves
  <2>4. pc' = [pc EXCEPT ![a] = "failed"] \/ pc' = [pc EXCEPT ![a] = "preflight"]
    BY Zenon, <1>1 DEF AttestCall
  <2> QED
    BY Zenon, <2>2, <2>3, <2>4
<1>2. CASE AttestPreflight(a)
  <2>1. pc[a] = "preflight" /\ mined' = mined /\ pool' = pool
    BY Zenon, <1>2 DEF AttestPreflight
  <2>2. CASE pc' = [pc EXCEPT ![a] = "queued"]
    BY Zenon, <1>0, <2>1, <2>2, CallMoves
  <2>3. CASE pc' = [pc EXCEPT ![a] = "failed"]
    BY Zenon, <1>0, <2>1, <2>3, CallMoves
  <2> QED
    BY Zenon, <1>2, <2>2, <2>3 DEF AttestPreflight
<1>3. CASE AttestNonce(a)
  <2>1. pc[a] = "queued" /\ mined' = mined /\ pool' = pool
    BY <1>3 DEF AttestNonce
  <2>2. CASE pc' = [pc EXCEPT ![a] = "reconcile"]
    BY Zenon, <1>0, <2>1, <2>2, CallMoves
  <2>3. CASE pc' = [pc EXCEPT ![a] = "sending"]
    BY Zenon, <1>0, <2>1, <2>3, CallMoves
  <2> QED
    BY Zenon, <1>3, <2>2, <2>3 DEF AttestNonce
<1>4. CASE AttestSend(a)
  <2>1. pc[a] = "sending" /\ mined' = mined
    BY ZenonT(30), <1>4 DEF AttestSend
  <2>2. \A u \in pool' : u \in pool \/ u.op = a
    BY <1>4 DEF AttestSend, Accept
  <2>3. CASE pc' = [pc EXCEPT ![a] = "reconcile"]
    BY Zenon, <1>0, <2>1, <2>2, <2>3, CallMoves
  <2>4. CASE pc' = [pc EXCEPT ![a] = "waiting"]
    BY Zenon, <1>0, <2>1, <2>2, <2>4, CallMoves
  <2>5. CASE pc' = [pc EXCEPT ![a] = "expired"]
    BY Zenon, <1>0, <2>1, <2>2, <2>5, CallMoves
  <2>6. CASE pc' = [pc EXCEPT ![a] = "requeue"]
    BY Zenon, <1>0, <2>1, <2>2, <2>6, CallMoves
  <2> QED
    BY ZenonT(30), <1>4, <2>3, <2>4, <2>5, <2>6 DEF AttestSend
<1>5. CASE AttestExpired(a)
  <2>1. pc[a] = "expired" /\ mined' = mined /\ pool' = pool
    BY Zenon, <1>5 DEF AttestExpired
  <2>2. CASE Reconciled(a) /\ pc' = [pc EXCEPT ![a] = "ok"]
    BY Zenon, <1>0, <2>1, <2>2, CallMoves, ReconciledLanded
  <2>3. CASE pc' = [pc EXCEPT ![a] = "requeue"]
    BY Zenon, <1>0, <2>1, <2>3, CallMoves
  <2> QED
    BY Zenon, <1>5, <2>2, <2>3 DEF AttestExpired
<1>6. CASE AttestRequeue(a)
  <2>1. /\ pc[a] = "requeue" /\ pc' = [pc EXCEPT ![a] = "queued"]
        /\ mined' = mined /\ pool' = pool
    BY ZenonT(30), <1>6 DEF AttestRequeue
  <2> QED
    BY Zenon, <1>0, <2>1, CallMoves
<1>7. CASE AttestReceipt(a)
  <2>1. pc[a] = "waiting" /\ mined' = mined /\ pool' = pool
    BY Zenon, <1>7 DEF AttestReceipt
  <2>2. PICK i \in 1..Len(mined) :
          /\ mined[i].tx.op = a
          /\ pc' = [pc EXCEPT ![a] = IF mined[i].ok THEN "ok" ELSE "reconcile"]
    BY Zenon, <1>7 DEF AttestReceipt
  <2>3. CASE mined[i].ok
    <3>1. a \in LandedOps /\ pc' = [pc EXCEPT ![a] = "ok"]
      BY Zenon, <2>2, <2>3 DEF LandedOps
    <3> QED
      BY Zenon, <1>0, <2>1, <3>1, CallMoves
  <2>4. CASE ~mined[i].ok
    <3>1. pc' = [pc EXCEPT ![a] = "reconcile"]
      BY Zenon, <2>2, <2>4
    <3> QED
      BY Zenon, <1>0, <2>1, <3>1, CallMoves
  <2> QED
    BY Zenon, <2>3, <2>4
<1>8. CASE AttestTimeout(a)
  <2>1. pc[a] = "waiting" /\ mined' = mined /\ pool' = pool
    BY ZenonT(30), <1>8 DEF AttestTimeout
  <2>2. CASE pc' = [pc EXCEPT ![a] = "requeue"]
    BY Zenon, <1>0, <2>1, <2>2, CallMoves
  <2>3. CASE pc' = [pc EXCEPT ![a] = "reconcile"]
    BY Zenon, <1>0, <2>1, <2>3, CallMoves
  <2>4. pc' = [pc EXCEPT ![a] = "requeue"] \/ pc' = [pc EXCEPT ![a] = "reconcile"]
    BY Zenon, <1>8 DEF AttestTimeout
  <2> QED
    BY Zenon, <2>2, <2>3, <2>4
<1>9. CASE AttestReconcile(a)
  <2>1. pc[a] = "reconcile" /\ mined' = mined /\ pool' = pool
    BY ZenonT(30), <1>9 DEF AttestReconcile
  <2>2. CASE Reconciled(a) /\ pc' = [pc EXCEPT ![a] = "ok"]
    BY Zenon, <1>0, <2>1, <2>2, CallMoves, ReconciledLanded
  <2>3. CASE pc' = [pc EXCEPT ![a] = "failed"]
    BY Zenon, <1>0, <2>1, <2>3, CallMoves
  <2> QED
    BY ZenonT(30), <1>9, <2>2, <2>3 DEF AttestReconcile
<1> QED
  BY Zenon, <1>1, <1>2, <1>3, <1>4, <1>5, <1>6, <1>7, <1>8, <1>9 DEF AttestStep

(* A transaction that is mined and does not revert lands its call, which   *)
(* was made; one that reverts, or lands a call again, changes nothing.     *)
LEMMA MineMoves ==
  ASSUME WalletInv, Mine
  PROVE  WalletInv' /\ PromiseStep
<1>1. PICK t \in pool, b \in BOOLEAN :
        pool' = pool \ {t} /\ mined' = Append(mined, [tx |-> t, ok |-> b])
  BY Zenon DEF Mine
<1>2. pc' = pc /\ t.op \in Ops /\ pc[t.op] # "idle" /\ pc \in [Ops -> WriteStates]
  BY Zenon, <1>1 DEF Mine, WalletInv
<1>3. PICK S : mined \in Seq(S)
  BY Zenon DEF WalletInv
<1> DEFINE m == [tx |-> t, ok |-> b]
<1>4. mined' \in Seq(S \cup {m})
  <2>1. mined \in Seq(S \cup {m})
    BY <1>3
  <2> QED
    BY <1>1, <2>1
<1>5. WalletInv'
  <2>1. \A u \in pool' : u.op \in Ops /\ pc'[u.op] # "idle"
    BY ZenonT(30), <1>1, <1>2 DEF WalletInv
  <2> QED
    BY ZenonT(30), <1>2, <1>4, <2>1 DEF WalletInv
<1>6. /\ Len(mined) \in Nat /\ Len(mined') = Len(mined) + 1
      /\ \A i \in 1..Len(mined) : mined'[i] = mined[i]
      /\ mined'[Len(mined) + 1] = m
  BY <1>1, <1>3
<1>7. LandedOps' = IF b THEN LandedOps \cup {t.op} ELSE LandedOps
  <2>1. 1..Len(mined') = 1..Len(mined) \cup {Len(mined) + 1} /\ m.ok = b /\ m.tx = t
    BY <1>6
  <2> HIDE DEF m
  <2>2. \A x : x \in LandedOps' <=> x \in LandedOps \/ (b /\ x = t.op)
    BY Zenon, <1>6, <2>1 DEF LandedOps
  <2> QED
    BY Zenon, <2>2
<1>8. CallStatus' = CallStatus
  BY ZenonT(30), <1>2 DEF CallStatus
<1>9. CASE b /\ t.op \notin LandedOps
  <2>1. CallStatus[t.op] # "idle"
    BY Zenon, <1>2 DEF CallStatus
  <2> QED
    BY ZenonT(30), <1>2, <1>5, <1>7, <1>8, <1>9, <2>1, PromiseSteps
<1>10. CASE ~b \/ t.op \in LandedOps
  <2>1. LandedOps' = LandedOps
    BY Zenon, <1>7, <1>10
  <2> QED
    BY Zenon, <1>5, <1>8, <2>1, PromiseSteps
<1> QED
  BY Zenon, <1>9, <1>10

(* What a caller of the wallet (a slash write, attestLiveness) gets, for   *)
(* any number of concurrent writes, resends and faults of the network: a   *)
(* call opens or is refused once, returns once, is confirmed only when its *)
(* transaction is on the chain, and one that failed may still land. That   *)
(* every call returns is liveness, and stays with the run.                 *)
THEOREM WalletKeepsPromise ==
  Spec => Promise!PromiseInit /\ [][Promise!PromiseNext]_(Promise!pvars)
<1>1. Init => WalletInv /\ Promise!PromiseInit
  <2> SUFFICES ASSUME Init PROVE WalletInv /\ Promise!PromiseInit
    BY Zenon
  <2>1. mined \in Seq({})
    BY DEF Init
  <2>2. WalletInv
    BY Zenon, <2>1 DEF Init, WalletInv, WriteStates
  <2>3. Promise!PromiseInit
    BY DEF Init, Promise!PromiseInit
  <2> QED
    BY Zenon, <2>2, <2>3
<1>2. WalletInv /\ [Next]_vars => WalletInv' /\ PromiseStep
  <2> SUFFICES ASSUME WalletInv, [Next]_vars
               PROVE  WalletInv' /\ PromiseStep
    BY ZenonT(30)
  <2>1. CASE UNCHANGED <<pc, pool, mined>>
    BY ZenonT(30), <2>1, PromiseSteps DEF WalletInv, CallStatus, LandedOps
  <2>2. PriceFalls \/ UNCHANGED vars => UNCHANGED <<pc, pool, mined>>
    BY Zenon DEF PriceFalls, vars, net
  <2> QED
    BY ZenonT(30), <2>1, <2>2, SlashMoves, AttestMoves, MineMoves DEF Next
<1> QED
  BY <1>1, <1>2, PTL DEF Spec, PromiseStep

-----------------------------------------------------------------------------
(* The price keeper.                                                       *)

\* The most a keeper counts, and has in hand, of one day's count
Bound == MaxUpdates + MaxOverlap - 1

\* Where a tick is past the check of the cap
Past == {"price", "simulate", "send", "count"}

\* The ticks of T that are keeper k's and stand at a place of S, and how many
Ids(T, k, S) == {i \in 1..MaxOverlap : \E t \in T : t.keeper = k /\ t.id = i /\ t.at \in S}
Num(T, k, S) == Cardinality(Ids(T, k, S))

\* Ticks are records, and a keeper has one of each id
TicksShaped ==
  /\ \A t \in ticks : /\ t = [keeper |-> t.keeper, id |-> t.id, at |-> t.at, left |-> t.left]
                      /\ t.keeper \in Keepers /\ t.id \in 1..MaxOverlap
  /\ \A t, u \in ticks : t.keeper = u.keeper /\ t.id = u.id => t = u

\* A day's broadcasts are counted or about to be, but for the ones of ticks from
\* before midnight, which the reset forgets
Books(count, past, counting, made, grace) ==
  /\ count + past <= Bound
  /\ made <= count + counting + grace

Grace(k) == IF lastDay[k] = day THEN Bound ELSE 0

PriceTyped ==
  /\ day \in 1..MaxDay
  /\ updatesToday \in [Keepers -> Nat]
  /\ lastDay \in [Keepers -> Nat] /\ \A k \in Keepers : lastDay[k] <= day
  /\ spent \in [Keepers -> [1..MaxDay -> Nat]]
  /\ TicksShaped

KeeperBooks(k) ==
  /\ Books(updatesToday[k], Num(ticks, k, Past), Num(ticks, k, {"count"}), spent[k][day], Grace(k))
  /\ \A d \in 1..MaxDay : /\ d < day => spent[k][d] <= 2 * Bound
                          /\ d > day => spent[k][d] = 0

PriceInv == PriceTyped /\ \A k \in Keepers : KeeperBooks(k)

PriceConstants == MaxUpdates \in Nat /\ MaxOverlap \in Nat \ {0} /\ MaxDay \in Nat \ {0}

(* At most MaxOverlap ticks of a keeper are in flight.                     *)
LEMMA NumBounded ==
  ASSUME PriceConstants, NEW T, NEW k, NEW S
  PROVE  /\ IsFiniteSet(Ids(T, k, S)) /\ Num(T, k, S) \in Nat
         /\ Num(T, k, S) <= MaxOverlap
<1>1. IsFiniteSet(1..MaxOverlap) /\ Cardinality(1..MaxOverlap) = MaxOverlap
  BY FS_Interval DEF PriceConstants
<1>2. Ids(T, k, S) \subseteq 1..MaxOverlap
  BY Zenon DEF Ids
<1> QED
  BY ZenonT(30), <1>1, <1>2, FS_Subset, FS_CardinalityType DEF Num

(* An update about to be counted has passed the check.                     *)
LEMMA CountingArePast ==
  ASSUME PriceConstants, NEW T, NEW k
  PROVE  Num(T, k, {"count"}) <= Num(T, k, Past)
<1>1. Ids(T, k, {"count"}) \subseteq Ids(T, k, Past)
  BY Zenon DEF Ids, Past
<1> QED
  BY Zenon, <1>1, NumBounded, FS_Subset DEF Num

(* How many ticks stand at a place when one of them ends (Ends).           *)
LEMMA NumEnds ==
  ASSUME PriceConstants, TicksShaped, NEW t \in ticks, NEW k, NEW S
  PROVE  Num(ticks \ {t}, k, S)
           = IF k = t.keeper /\ t.at \in S THEN Num(ticks, k, S) - 1 ELSE Num(ticks, k, S)
<1>1. CASE k = t.keeper /\ t.at \in S
  <2>1. t.id \in Ids(ticks, k, S)
    BY Zenon, <1>1 DEF Ids, TicksShaped
  <2>2. Ids(ticks \ {t}, k, S) = Ids(ticks, k, S) \ {t.id}
    BY ZenonT(30), <1>1 DEF Ids, TicksShaped
  <2>3. Cardinality(Ids(ticks, k, S) \ {t.id}) = Cardinality(Ids(ticks, k, S)) - 1
    BY Zenon, <2>1, NumBounded, FS_RemoveElement
  <2> QED
    BY Zenon, <1>1, <2>2, <2>3 DEF Num
<1>2. CASE ~(k = t.keeper /\ t.at \in S)
  <2>1. Ids(ticks \ {t}, k, S) = Ids(ticks, k, S)
    BY Zenon, <1>2 DEF Ids
  <2> QED
    BY Zenon, <1>2, <2>1 DEF Num
<1> QED
  BY Zenon, <1>1, <1>2

(* And when it then goes on elsewhere (Move, Skip).                        *)
LEMMA NumMoves ==
  ASSUME PriceConstants, TicksShaped, NEW t \in ticks, NEW k, NEW S,
         NEW u, u.keeper = t.keeper, u.id = t.id
  PROVE  Num((ticks \ {t}) \cup {u}, k, S)
           = IF k = t.keeper /\ u.at \in S THEN Num(ticks \ {t}, k, S) + 1 ELSE Num(ticks \ {t}, k, S)
<1>1. CASE k = t.keeper /\ u.at \in S
  <2>1. t.id \notin Ids(ticks \ {t}, k, S)
    BY Zenon, <1>1 DEF Ids, TicksShaped
  <2>2. Ids((ticks \ {t}) \cup {u}, k, S) = Ids(ticks \ {t}, k, S) \cup {t.id}
    BY ZenonT(30), <1>1 DEF Ids, TicksShaped
  <2>3. Cardinality(Ids(ticks \ {t}, k, S) \cup {t.id}) = Cardinality(Ids(ticks \ {t}, k, S)) + 1
    BY Zenon, <2>1, NumBounded, FS_AddElement
  <2> QED
    BY Zenon, <1>1, <2>2, <2>3 DEF Num
<1>2. CASE ~(k = t.keeper /\ u.at \in S)
  <2>1. Ids((ticks \ {t}) \cup {u}, k, S) = Ids(ticks \ {t}, k, S)
    BY Zenon, <1>2 DEF Ids
  <2> QED
    BY Zenon, <1>2, <2>1 DEF Num
<1> QED
  BY Zenon, <1>1, <1>2

\* A step of tick t that leaves the days alone: u is the tick where it goes on, or empty
TickGoes(t, at, left, u) ==
  /\ u = {} \/ u = {[keeper |-> t.keeper, id |-> t.id, at |-> at, left |-> left]}
  /\ ticks' = (ticks \ {t}) \cup u /\ day' = day /\ lastDay' = lastDay

(* What such a step does to the ticks.                                     *)
LEMMA TicksStayShaped ==
  ASSUME PriceConstants, TicksShaped, NEW t \in ticks, NEW at, NEW left, NEW u,
         TickGoes(t, at, left, u)
  PROVE  TicksShaped'
<1> DEFINE v == [keeper |-> t.keeper, id |-> t.id, at |-> at, left |-> left]
<1>1. v.keeper = t.keeper /\ v.id = t.id /\ v.at = at /\ v.left = left
  BY Zenon
<1>2. v = [keeper |-> v.keeper, id |-> v.id, at |-> v.at, left |-> v.left]
  BY Zenon, <1>1
<1>3. \A w \in ticks' : (w \in ticks /\ w # t) \/ w = v
  BY Zenon DEF TickGoes
<1> HIDE DEF v
<1> QED
  BY <1>1, <1>2, <1>3 DEF TicksShaped

(* The books after such a step, of any keeper.                             *)
LEMMA BooksStay ==
  ASSUME PriceConstants, PriceInv, NEW t \in ticks, NEW at, NEW left, NEW u, TicksShaped',
         TickGoes(t, at, left, u),
         updatesToday' \in [Keepers -> Nat], spent' \in [Keepers -> [1..MaxDay -> Nat]],
         \A k \in Keepers \ {t.keeper} : updatesToday'[k] = updatesToday[k] /\ spent'[k] = spent[k],
         \A d \in 1..MaxDay \ {day} : spent'[t.keeper][d] = spent[t.keeper][d],
         \A k \in Keepers \ {t.keeper}, S \in {Past, {"count"}} : Num(ticks', k, S) = Num(ticks, k, S),
         Books(updatesToday'[t.keeper], Num(ticks', t.keeper, Past), Num(ticks', t.keeper, {"count"}),
               spent'[t.keeper][day], Grace(t.keeper))
  PROVE  PriceInv'
<1>1. t.keeper \in Keepers
  BY Zenon DEF PriceInv, PriceTyped, KeeperBooks, TicksShaped
<1>2. ASSUME NEW k \in Keepers
      PROVE  Books(updatesToday'[k], Num(ticks', k, Past), Num(ticks', k, {"count"}), spent'[k][day],
                   Grace(k))
  BY Zenon, <1>2 DEF PriceInv, PriceTyped, KeeperBooks
<1>3. ASSUME NEW k \in Keepers, NEW d \in 1..MaxDay
      PROVE  /\ d < day => spent'[k][d] <= 2 * Bound
             /\ d > day => spent'[k][d] = 0
  <2>1. d # day => spent'[k][d] = spent[k][d]
    BY Zenon, <1>1
  <2>2. day \in Nat /\ d \in Nat
    BY DEF PriceInv, PriceTyped, KeeperBooks
  <2>3. (d < day => spent[k][d] <= 2 * Bound) /\ (d > day => spent[k][d] = 0)
    BY Zenon DEF PriceInv, PriceTyped, KeeperBooks
  <2>4. d < day \/ d > day => d # day
    BY <2>2
  <2> HIDE DEF Bound
  <2> QED
    BY Zenon, <2>1, <2>3, <2>4
<1>4. day' = day /\ lastDay' = lastDay
  BY Zenon DEF TickGoes
<1>5. PriceTyped'
  BY Zenon, <1>4 DEF PriceInv, PriceTyped
<1>6. ASSUME NEW k \in Keepers
      PROVE  KeeperBooks(k)'
  <2>1. Grace(k)' = Grace(k)
    BY Zenon, <1>4 DEF Grace
  <2> QED
    BY Zenon, <1>2, <1>3, <1>4, <2>1 DEF KeeperBooks
<1> QED
  BY Zenon, <1>5, <1>6 DEF PriceInv

(* How many ticks stand at a place after such a step.                      *)
LEMMA NumAfter ==
  ASSUME PriceConstants, TicksShaped, NEW t \in ticks, NEW at, NEW left, NEW u,
         TickGoes(t, at, left, u),
         NEW k, NEW S
  PROVE  /\ k # t.keeper \/ (t.at \in S <=> u # {} /\ at \in S)
             => Num(ticks', k, S) = Num(ticks, k, S)
         /\ k = t.keeper /\ t.at \in S /\ (u = {} \/ at \notin S)
             => Num(ticks', k, S) = Num(ticks, k, S) - 1
         /\ k = t.keeper /\ t.at \notin S /\ u # {} /\ at \in S
             => Num(ticks', k, S) = Num(ticks, k, S) + 1
<1> DEFINE v == [keeper |-> t.keeper, id |-> t.id, at |-> at, left |-> left]
           out == k = t.keeper /\ t.at \in S
           in  == k = t.keeper /\ u # {} /\ at \in S
           N == Num(ticks, k, S)
           M == Num(ticks \ {t}, k, S)
<1>1. v.keeper = t.keeper /\ v.id = t.id /\ v.at = at
  BY Zenon
<1>2. N \in Nat
  BY Zenon, NumBounded
<1>3. (out => M = N - 1) /\ (~out => M = N)
  <2>1. M = IF k = t.keeper /\ t.at \in S THEN N - 1 ELSE N
    BY NumEnds
  <2> QED
    BY Zenon, <2>1
<1>4. (in => Num(ticks', k, S) = M + 1) /\ (~in => Num(ticks', k, S) = M)
  <2> HIDE DEF v
  <2>1. CASE u = {}
    <3>1. ticks' = ticks \ {t}
      BY Zenon, <2>1 DEF TickGoes
    <3> QED
      BY Zenon, <2>1, <3>1
  <2>2. CASE u = {v}
    <3>1. ticks' = (ticks \ {t}) \cup {v}
      BY Zenon, <2>2 DEF TickGoes
    <3>2. u # {}
      BY Zenon, <2>2
    <3>3. Num((ticks \ {t}) \cup {v}, k, S) = IF k = t.keeper /\ v.at \in S THEN M + 1 ELSE M
      BY <1>1, NumMoves
    <3> QED
      BY Zenon, <1>1, <3>1, <3>2, <3>3
  <2> QED
    BY Zenon, <2>1, <2>2 DEF v, TickGoes
<1>5. (N - 1) + 1 = N
  BY <1>2
<1> QED
  BY Zenon, <1>3, <1>4, <1>5

(* The books take a tick that passes the check below the cap.              *)
LEMMA BooksAdmit ==
  ASSUME PriceConstants, NEW count \in Nat, NEW past \in Nat, NEW counting \in Nat, NEW made \in Nat,
         NEW grace, Books(count, past, counting, made, grace), NEW more \in Nat,
         more <= past \/ (count < MaxUpdates /\ more <= MaxOverlap)
  PROVE  Books(count, more, counting, made, grace)
<1>1. count + past <= MaxUpdates + MaxOverlap - 1
  BY Zenon DEF Books, Bound
<1>2. count + more <= MaxUpdates + MaxOverlap - 1
  BY <1>1 DEF PriceConstants
<1> QED
  BY Zenon, <1>2 DEF Books, Bound

(* A step that broadcasts and counts nothing, and passes the check of the  *)
(* cap only below it.                                                      *)
LEMMA QuietTick ==
  ASSUME PriceConstants, PriceInv, NEW t \in ticks, NEW at, NEW left, NEW u,
         TickGoes(t, at, left, u),
         updatesToday' = updatesToday, spent' = spent, t.at # "count", at # "count",
         at \notin Past \/ t.at \in Past \/ updatesToday[t.keeper] < MaxUpdates
  PROVE  PriceInv'
<1> DEFINE k == t.keeper
           P == Num(ticks, k, Past)
           Q == Num(ticks', k, Past)
           C == Num(ticks, k, {"count"})
<1>1. TicksShaped /\ k \in Keepers
  BY DEF PriceInv, PriceTyped, KeeperBooks, TicksShaped
<1>2. P \in Nat /\ Q \in Nat /\ C \in Nat /\ Q <= MaxOverlap
  BY Zenon, NumBounded
<1>3. \A j \in Keepers \ {t.keeper}, S \in {Past, {"count"}} : Num(ticks', j, S) = Num(ticks, j, S)
  <2> SUFFICES ASSUME NEW j, j # t.keeper, NEW S PROVE Num(ticks', j, S) = Num(ticks, j, S)
    BY Zenon
  <2> QED
    BY <1>1, NumAfter
<1>4. Num(ticks', k, {"count"}) = C
  <2>1. t.at \notin {"count"} /\ at \notin {"count"}
    OBVIOUS
  <2> QED
    BY <1>1, <2>1, NumAfter
<1>5. Q = P \/ Q = P - 1 \/ (at \in Past /\ t.at \notin Past)
  BY <1>1, NumAfter
<1>6. updatesToday[k] \in Nat /\ spent[k][day] \in Nat
  BY Zenon, <1>1 DEF PriceInv, PriceTyped, KeeperBooks
<1>7. Books(updatesToday[k], P, C, spent[k][day], Grace(k))
  BY Zenon, <1>1 DEF PriceInv, PriceTyped, KeeperBooks
<1> HIDE DEF P, Q, C
<1>8. Q <= P \/ (updatesToday[k] < MaxUpdates /\ Q <= MaxOverlap)
  BY <1>2, <1>5
<1>9. Books(updatesToday[k], Q, C, spent[k][day], Grace(k))
  BY Zenon, <1>2, <1>6, <1>7, <1>8, BooksAdmit
<1>10. TicksShaped'
  BY ZenonT(30), <1>1, TicksStayShaped
<1>11. Books(updatesToday'[k], Num(ticks', k, Past), Num(ticks', k, {"count"}), spent'[k][day],
            Grace(k))
  BY Zenon, <1>4, <1>9 DEF Q
<1>12. updatesToday' \in [Keepers -> Nat] /\ spent' \in [Keepers -> [1..MaxDay -> Nat]]
  BY Zenon DEF PriceInv, PriceTyped, KeeperBooks
<1> QED
  BY Zenon, <1>3, <1>10, <1>11, <1>12, BooksStay

(* The moves of the actions are such steps.                                *)
LEMMA Goes ==
  ASSUME TicksShaped, NEW t \in ticks, day' = day, lastDay' = lastDay
  PROVE  /\ \A at : Move(t, at) => \E u : u # {} /\ TickGoes(t, at, t.left, u)
         /\ Skip(t) => \E u : u # {} /\ TickGoes(t, "next", Tail(t.left), u)
         /\ Ends(t) => TickGoes(t, "next", t.left, {})
<1>1. t = [keeper |-> t.keeper, id |-> t.id, at |-> t.at, left |-> t.left]
  BY Zenon DEF TicksShaped
<1>2. ASSUME NEW at, Move(t, at)
      PROVE  \E u : u # {} /\ TickGoes(t, at, t.left, u)
  <2>1. [t EXCEPT !.at = at] = [keeper |-> t.keeper, id |-> t.id, at |-> at, left |-> t.left]
    BY <1>1
  <2>2. ticks' = (ticks \ {t}) \cup {[keeper |-> t.keeper, id |-> t.id, at |-> at, left |-> t.left]}
    BY Zenon, <1>2, <2>1 DEF Move
  <2>3. {[keeper |-> t.keeper, id |-> t.id, at |-> at, left |-> t.left]} # {}
    BY Zenon
  <2> QED
    BY Zenon, <2>2, <2>3 DEF TickGoes
<1>3. ASSUME Skip(t)
      PROVE  \E u : u # {} /\ TickGoes(t, "next", Tail(t.left), u)
  <2>1. [t EXCEPT !.at = "next", !.left = Tail(@)]
          = [keeper |-> t.keeper, id |-> t.id, at |-> "next", left |-> Tail(t.left)]
    <3> DEFINE L == Tail(t.left)
               w == [t EXCEPT !.at = "next"]
    <3>1. [t EXCEPT !.at = "next", !.left = Tail(@)] = [t EXCEPT !.at = "next", !.left = L]
      BY Zenon
    <3> HIDE DEF L
    <3>2. w = [keeper |-> t.keeper, id |-> t.id, at |-> "next", left |-> t.left]
      BY <1>1
    <3>3. [t EXCEPT !.at = "next", !.left = L] = [w EXCEPT !.left = L]
      BY Zenon
    <3> HIDE DEF w
    <3>4. w.keeper = t.keeper /\ w.id = t.id /\ w.at = "next" /\ w.left = t.left
      BY Zenon, <3>2
    <3>5. w = [keeper |-> w.keeper, id |-> w.id, at |-> w.at, left |-> w.left]
      BY Zenon, <3>2, <3>4
    <3>6. [w EXCEPT !.left = L] = [keeper |-> w.keeper, id |-> w.id, at |-> w.at, left |-> L]
      BY <3>5
    <3> QED
      BY Zenon, <3>1, <3>3, <3>4, <3>6 DEF L
  <2>2. ticks' = (ticks \ {t})
                   \cup {[keeper |-> t.keeper, id |-> t.id, at |-> "next", left |-> Tail(t.left)]}
    BY Zenon, <1>3, <2>1 DEF Skip
  <2>3. {[keeper |-> t.keeper, id |-> t.id, at |-> "next", left |-> Tail(t.left)]} # {}
    BY Zenon
  <2> QED
    BY Zenon, <2>2, <2>3 DEF TickGoes
<1>4. ASSUME Ends(t)
      PROVE  TickGoes(t, "next", t.left, {})
  BY Zenon, <1>4 DEF Ends, TickGoes
<1> QED
  BY Zenon, <1>2, <1>3, <1>4

(* A broadcast is one update more to count; counting it is one less.       *)
LEMMA SpendingTick ==
  ASSUME PriceConstants, PriceInv, NEW t \in ticks, NEW at, NEW left, NEW u, u # {},
         TickGoes(t, at, left, u),
         \/ /\ t.at = "send" /\ at = "count" /\ updatesToday' = updatesToday
            /\ spent' = [spent EXCEPT ![t.keeper][day] = @ + 1]
         \/ /\ t.at = "count" /\ at = "next" /\ spent' = spent
            /\ updatesToday' = [updatesToday EXCEPT ![t.keeper] = @ + 1]
  PROVE  PriceInv'
<1> DEFINE k == t.keeper
           P == Num(ticks, k, Past)
           Q == Num(ticks', k, Past)
           C == Num(ticks, k, {"count"})
           D == Num(ticks', k, {"count"})
           U == updatesToday[k]
           X == spent[k][day]
           G == Grace(k)
<1>1. TicksShaped /\ k \in Keepers /\ day \in 1..MaxDay
  BY Zenon DEF PriceInv, PriceTyped, KeeperBooks, TicksShaped
<1>2. P \in Nat /\ C \in Nat
  BY Zenon, NumBounded
<1>3. \A j \in Keepers \ {t.keeper}, S \in {Past, {"count"}} : Num(ticks', j, S) = Num(ticks, j, S)
  <2> SUFFICES ASSUME NEW j, j # t.keeper, NEW S PROVE Num(ticks', j, S) = Num(ticks, j, S)
    BY Zenon
  <2> QED
    BY <1>1, NumAfter
<1>4. updatesToday \in [Keepers -> Nat] /\ spent \in [Keepers -> [1..MaxDay -> Nat]]
  BY Zenon DEF PriceInv, PriceTyped, KeeperBooks
<1>5. U \in Nat /\ X \in Nat /\ G \in Int
  BY <1>1, <1>4 DEF Grace, Bound, PriceConstants
<1>6. Books(U, P, C, X, G)
  BY Zenon, <1>1 DEF PriceInv, PriceTyped, KeeperBooks
<1>7. TicksShaped'
  BY Zenon, <1>1, TicksStayShaped
<1>8. CASE t.at = "send" /\ at = "count" /\ updatesToday' = updatesToday
            /\ spent' = [spent EXCEPT ![t.keeper][day] = @ + 1]
  <2>1. t.at \in Past /\ at \in Past /\ t.at \notin {"count"} /\ at \in {"count"}
    BY Zenon, <1>8 DEF Past
  <2>2. Q = P
    BY <1>1, <2>1, NumAfter
  <2>3. D = C + 1
    BY <1>1, <2>1, NumAfter
  <2>4. spent' = [spent EXCEPT ![k] = [spent[k] EXCEPT ![day] = X + 1]]
    BY Zenon, <1>8
  <2>5. spent[k] \in [1..MaxDay -> Nat] /\ X + 1 \in Nat
    BY <1>1, <1>4, <1>5
  <2>6. [spent[k] EXCEPT ![day] = X + 1] \in [1..MaxDay -> Nat]
    BY Zenon, <2>5
  <2>7. spent' \in [Keepers -> [1..MaxDay -> Nat]]
    BY Zenon, <1>4, <2>4, <2>6
  <2>8. spent'[k] = [spent[k] EXCEPT ![day] = X + 1]
    BY Zenon, <1>1, <1>4, <2>4
  <2>9. spent'[k][day] = X + 1 /\ \A d \in 1..MaxDay \ {day} : spent'[k][d] = spent[k][d]
    BY Zenon, <1>1, <2>5, <2>8
  <2>10. \A j \in Keepers \ {k} : updatesToday'[j] = updatesToday[j] /\ spent'[j] = spent[j]
    BY Zenon, <1>4, <1>8, <2>4
  <2>11. Books(U, P, C + 1, X + 1, G)
    <3> HIDE DEF U, P, C, X, G
    <3> QED
      BY <1>2, <1>5, <1>6 DEF Books, Bound
  <2>12. Books(updatesToday'[k], Q, D, spent'[k][day], G)
    BY Zenon, <1>8, <2>2, <2>3, <2>9, <2>11
  <2>13. updatesToday' \in [Keepers -> Nat]
    BY Zenon, <1>4, <1>8
  <2> QED
    BY Zenon, <1>3, <1>7, <2>7, <2>9, <2>10, <2>12, <2>13, BooksStay
<1>9. CASE t.at = "count" /\ at = "next" /\ spent' = spent
            /\ updatesToday' = [updatesToday EXCEPT ![t.keeper] = @ + 1]
  <2>1. t.at \in Past /\ at \notin Past /\ t.at \in {"count"} /\ at \notin {"count"}
    BY Zenon, <1>9 DEF Past
  <2>2. Q = P - 1
    BY <1>1, <2>1, NumAfter
  <2>3. D = C - 1
    BY <1>1, <2>1, NumAfter
  <2>4. updatesToday' = [updatesToday EXCEPT ![k] = U + 1] /\ U + 1 \in Nat
    BY <1>5, <1>9
  <2>5. updatesToday' \in [Keepers -> Nat] /\ updatesToday'[k] = U + 1
    BY Zenon, <1>1, <1>4, <2>4
  <2>6. \A j \in Keepers \ {k} : updatesToday'[j] = updatesToday[j] /\ spent'[j] = spent[j]
    BY Zenon, <1>4, <1>9, <2>4
  <2>7. Books(U + 1, P - 1, C - 1, X, G)
    <3> HIDE DEF U, P, C, X, G
    <3> QED
      BY <1>2, <1>5, <1>6 DEF Books, Bound
  <2>8. Books(updatesToday'[k], Q, D, spent'[k][day], G)
    BY Zenon, <1>9, <2>2, <2>3, <2>5, <2>7
  <2>9. spent' \in [Keepers -> [1..MaxDay -> Nat]] /\ \A d \in 1..MaxDay \ {day} : spent'[k][d] = spent[k][d]
    BY Zenon, <1>4, <1>9
  <2> QED
    BY Zenon, <1>3, <1>7, <2>5, <2>6, <2>8, <2>9, BooksStay
<1> QED
  BY Zenon, <1>8, <1>9

(* A keeper's tick, whatever it does.                                      *)
LEMMA TickKeeps ==
  ASSUME PriceConstants, PriceInv, NEW t \in ticks, TickStep(t)
  PROVE  PriceInv'
<1>1. TicksShaped
  BY Zenon DEF PriceInv, PriceTyped, KeeperBooks
<1>2. t.keeper \in Keepers /\ updatesToday[t.keeper] \in Nat
  BY Zenon, <1>1 DEF PriceInv, PriceTyped, KeeperBooks, TicksShaped
<1>3. ASSUME day' = day, lastDay' = lastDay, updatesToday' = updatesToday, spent' = spent, t.at # "count"
      PROVE  /\ Ends(t) \/ Skip(t) => PriceInv'
             /\ \A at : ( /\ Move(t, at) /\ at # "count"
                         /\ \/ at \notin Past \/ t.at \in Past
                            \/ updatesToday[t.keeper] < MaxUpdates )
                      => PriceInv'
  <2>1. "next" \notin Past /\ "next" # "count"
    BY DEF Past
  <2>2. CASE Ends(t)
    <3>1. TickGoes(t, "next", t.left, {})
      BY Zenon, <1>1, <1>3, <2>2, Goes
    <3> QED
      BY Zenon, <1>3, <2>1, <3>1, QuietTick
  <2>3. CASE Skip(t)
    <3>1. PICK u : TickGoes(t, "next", Tail(t.left), u)
      BY Zenon, <1>1, <1>3, <2>3, Goes
    <3> QED
      BY Zenon, <1>3, <2>1, <3>1, QuietTick
  <2>4. ASSUME NEW at, Move(t, at), at # "count",
               at \notin Past \/ t.at \in Past \/ updatesToday[t.keeper] < MaxUpdates
        PROVE  PriceInv'
    <3>1. PICK u : TickGoes(t, at, t.left, u)
      BY Zenon, <1>1, <1>3, <2>4, Goes
    <3> QED
      BY Zenon, <1>3, <2>4, <3>1, QuietTick
  <2> QED
    BY Zenon, <2>2, <2>3, <2>4
<1>4. CASE ReadGas(t)
  <2>1. t.at # "count" /\ "next" # "count" /\ "next" \notin Past
    BY ZenonT(30), <1>4 DEF ReadGas, Past
  <2>2. Move(t, "next") \/ Ends(t)
    BY Zenon, <1>4 DEF ReadGas
  <2>3. day' = day /\ lastDay' = lastDay /\ updatesToday' = updatesToday /\ spent' = spent
    BY Zenon, <1>4 DEF ReadGas
  <2> QED
    BY Zenon, <1>3, <2>1, <2>2, <2>3
<1>5. CASE NextPaymaster(t)
  <2>1. t.at # "count" /\ "price" # "count"
    BY Zenon, <1>5 DEF NextPaymaster
  <2>2. Ends(t) \/ (Move(t, "price") /\ ~(updatesToday[t.keeper] >= MaxUpdates))
    BY Zenon, <1>5 DEF NextPaymaster
  <2>3. ~(updatesToday[t.keeper] >= MaxUpdates) => updatesToday[t.keeper] < MaxUpdates
    BY <1>2 DEF PriceConstants
  <2>4. day' = day /\ lastDay' = lastDay /\ updatesToday' = updatesToday /\ spent' = spent
    BY Zenon, <1>5 DEF NextPaymaster
  <2> QED
    BY Zenon, <1>3, <2>1, <2>2, <2>3, <2>4
<1>6. CASE ReadPrice(t)
  <2>1. t.at # "count" /\ t.at \in Past /\ "simulate" # "count"
    BY ZenonT(30), <1>6 DEF ReadPrice, Past
  <2>2. Move(t, "simulate") \/ Skip(t) \/ Ends(t)
    BY Zenon, <1>6 DEF ReadPrice
  <2>3. day' = day /\ lastDay' = lastDay /\ updatesToday' = updatesToday /\ spent' = spent
    BY Zenon, <1>6 DEF ReadPrice
  <2> QED
    BY Zenon, <1>3, <2>1, <2>2, <2>3
<1>7. CASE CanUpdatePrice(t)
  <2>1. t.at # "count" /\ t.at \in Past /\ "send" # "count"
    BY ZenonT(30), <1>7 DEF CanUpdatePrice, Past
  <2>2. Move(t, "send") \/ Skip(t)
    BY Zenon, <1>7 DEF CanUpdatePrice
  <2>3. day' = day /\ lastDay' = lastDay /\ updatesToday' = updatesToday /\ spent' = spent
    BY Zenon, <1>7 DEF CanUpdatePrice
  <2> QED
    BY Zenon, <1>3, <2>1, <2>2, <2>3
<1>8. CASE Broadcast(t)
  <2>1. t.at = "send" /\ t.at # "count"
    BY <1>8 DEF Broadcast
  <2>2. day' = day /\ lastDay' = lastDay /\ updatesToday' = updatesToday
    BY Zenon, <1>8 DEF Broadcast
  <2>3. CASE UpdatePrice(t) /\ Move(t, "count")
    <3>1. PICK u : u # {} /\ TickGoes(t, "count", t.left, u)
      BY Zenon, <1>1, <2>2, <2>3, Goes
    <3>2. spent' = [spent EXCEPT ![t.keeper][day] = @ + 1]
      BY Zenon, <2>3 DEF UpdatePrice
    <3> QED
      BY Zenon, <2>1, <2>2, <3>1, <3>2, SpendingTick
  <2>4. CASE Skip(t) /\ spent' = spent
    BY Zenon, <1>3, <2>1, <2>2, <2>4
  <2> QED
    BY Zenon, <1>8, <2>3, <2>4 DEF Broadcast
<1>9. CASE Count(t)
  <2>1. day' = day /\ lastDay' = lastDay /\ spent' = spent /\ t.at = "count"
    BY Zenon, <1>9 DEF Count
  <2>2. PICK u : u # {} /\ TickGoes(t, "next", Tail(t.left), u)
    BY Zenon, <1>1, <1>9, <2>1, Goes DEF Count
  <2>3. updatesToday' = [updatesToday EXCEPT ![t.keeper] = @ + 1]
    BY Zenon, <1>9 DEF Count
  <2> QED
    BY Zenon, <2>1, <2>2, <2>3, SpendingTick
<1> QED
  BY Zenon, <1>4, <1>5, <1>6, <1>7, <1>8, <1>9 DEF TickStep

(* A day's broadcasts are within twice the bound, whatever its books say.  *)
LEMMA BooksBound ==
  ASSUME PriceConstants, NEW count \in Nat, NEW past \in Nat, NEW counting \in Nat, NEW made \in Nat,
         counting <= past, NEW grace \in {0, Bound}, Books(count, past, counting, made, grace)
  PROVE  made <= Bound + grace /\ made <= 2 * Bound /\ past <= Bound /\ Bound \in Nat
<1>1. Bound \in Int
  BY DEF Bound, PriceConstants
<1>2. count + past <= Bound /\ made <= count + counting + grace
  BY Zenon DEF Books
<1> HIDE DEF Bound
<1> QED
  BY <1>1, <1>2

(* The interval fires: the first tick of a day forgets the last one's      *)
(* count, which the spending of the ticks from before is measured by.      *)
LEMMA TickStarts ==
  ASSUME PriceConstants, PriceInv, NEW k \in Keepers, NEW id \in 1..MaxOverlap, TickStart(k, id)
  PROVE  PriceInv'
<1> DEFINE v == [keeper |-> k, id |-> id, at |-> "gas", left |-> Paymasters]
           P == Num(ticks, k, Past)
           C == Num(ticks, k, {"count"})
           U == updatesToday[k]
           X == spent[k][day]
           count == IF day # lastDay[k] THEN 0 ELSE U
<1>1. /\ TicksShaped /\ day \in 1..MaxDay /\ updatesToday \in [Keepers -> Nat]
      /\ lastDay \in [Keepers -> Nat] /\ spent \in [Keepers -> [1..MaxDay -> Nat]]
      /\ Books(U, P, C, X, Grace(k))
  BY Zenon DEF PriceInv, PriceTyped, KeeperBooks
<1>2. v.keeper = k /\ v.id = id /\ v.at = "gas" /\ v.left = Paymasters
  BY Zenon
<1>3. v = [keeper |-> v.keeper, id |-> v.id, at |-> v.at, left |-> v.left]
  BY Zenon, <1>2
<1>4. ticks' = ticks \/ ticks' = ticks \cup {v}
  BY Zenon DEF TickStart
<1>5. \A w \in ticks : ~(w.keeper = k /\ w.id = id)
  BY Zenon DEF TickStart
<1> HIDE DEF v
<1>6. TicksShaped'
  BY ZenonT(30), <1>1, <1>2, <1>3, <1>4, <1>5 DEF TicksShaped
<1>7. ASSUME NEW j, NEW S \in {Past, {"count"}}
      PROVE  Num(ticks', j, S) = Num(ticks, j, S)
  <2>1. v.at \notin S
    BY Zenon, <1>2 DEF Past
  <2>2. Ids(ticks', j, S) = Ids(ticks, j, S)
    BY ZenonT(30), <1>4, <2>1 DEF Ids
  <2> QED
    BY Zenon, <2>2 DEF Num
<1>8. /\ updatesToday' = [updatesToday EXCEPT ![k] = count]
      /\ lastDay' = [lastDay EXCEPT ![k] = day] /\ day' = day /\ spent' = spent
  BY Zenon DEF TickStart
<1>9. U \in Nat /\ X \in Nat /\ count \in Nat /\ day \in Nat
  <2>1. U \in Nat /\ X \in Nat
    BY Zenon, <1>1
  <2>2. day \in Nat /\ 0 \in Nat
    BY <1>1
  <2> QED
    BY Zenon, <2>1, <2>2
<1>10. /\ updatesToday' \in [Keepers -> Nat] /\ lastDay' \in [Keepers -> Nat]
       /\ updatesToday'[k] = count /\ lastDay'[k] = day
       /\ \A j \in Keepers \ {k} : updatesToday'[j] = updatesToday[j] /\ lastDay'[j] = lastDay[j]
  BY Zenon, <1>1, <1>8, <1>9
<1>11. \A j \in Keepers : lastDay'[j] <= day'
  <2>1. day <= day
    BY <1>9
  <2>2. \A j \in Keepers : lastDay[j] <= day
    BY Zenon DEF PriceInv, PriceTyped, KeeperBooks
  <2> QED
    BY Zenon, <1>8, <1>10, <2>1, <2>2
<1>12. P \in Nat /\ C \in Nat /\ C <= P
  BY Zenon, NumBounded, CountingArePast
<1>13. Books(count, P, C, X, Bound)
  <2>1. CASE day = lastDay[k]
    BY Zenon, <1>1, <2>1 DEF Grace
  <2>2. CASE day # lastDay[k]
    <3>1. Books(U, P, C, X, 0) /\ count = 0
      BY Zenon, <1>1, <2>2 DEF Grace
    <3>2. X <= Bound + 0 /\ P <= Bound /\ Bound \in Nat
      BY Zenon, <1>9, <1>12, <3>1, BooksBound
    <3> HIDE DEF P, C, X, count, Bound
    <3>3. 0 + P <= Bound /\ X <= 0 + C + Bound
      BY <1>12, <1>9, <3>2
    <3> QED
      BY Zenon, <3>1, <3>3 DEF Books
  <2> QED
    BY Zenon, <2>1, <2>2
<1>14. ASSUME NEW j \in Keepers
       PROVE  Books(updatesToday'[j], Num(ticks', j, Past), Num(ticks', j, {"count"}), spent'[j][day'],
                    Grace(j)')
  <2>1. Num(ticks', j, Past) = Num(ticks, j, Past) /\ Num(ticks', j, {"count"}) = Num(ticks, j, {"count"})
    BY Zenon, <1>7
  <2>2. CASE j = k
    <3>1. Grace(j)' = Bound
      BY Zenon, <1>8, <1>10, <2>2 DEF Grace, Bound
    <3> QED
      BY Zenon, <1>8, <1>10, <1>13, <2>1, <2>2, <3>1
  <2>3. CASE j # k
    <3>1. Grace(j)' = Grace(j)
      BY Zenon, <1>8, <1>10, <2>3 DEF Grace, Bound
    <3>2. Books(updatesToday[j], Num(ticks, j, Past), Num(ticks, j, {"count"}), spent[j][day], Grace(j))
      BY Zenon DEF PriceInv, PriceTyped, KeeperBooks
    <3> QED
      BY Zenon, <1>8, <1>10, <2>1, <2>3, <3>1, <3>2
  <2> QED
    BY Zenon, <2>2, <2>3
<1>15. ASSUME NEW j \in Keepers
       PROVE  \A d \in 1..MaxDay :
                (d < day' => spent'[j][d] <= 2 * Bound) /\ (d > day' => spent'[j][d] = 0)
  BY Zenon, <1>8 DEF PriceInv, KeeperBooks
<1>16. PriceTyped'
  BY Zenon, <1>1, <1>6, <1>8, <1>10, <1>11 DEF PriceTyped
<1>17. ASSUME NEW j \in Keepers
       PROVE  KeeperBooks(j)'
  <2> HIDE DEF P, C, U, X, count
  <2>1. Books(updatesToday'[j], Num(ticks', j, Past), Num(ticks', j, {"count"}), spent'[j][day'],
              Grace(j)')
    BY Zenon, <1>14
  <2>2. \A d \in 1..MaxDay : (d < day' => spent'[j][d] <= 2 * Bound) /\ (d > day' => spent'[j][d] = 0)
    BY Zenon, <1>15
  <2> QED
    BY Zenon, <2>1, <2>2 DEF KeeperBooks
<1> QED
  BY Zenon, <1>16, <1>17 DEF PriceInv

(* Midnight: the day's books close within twice the bound.                 *)
LEMMA MidnightKeeps ==
  ASSUME PriceConstants, PriceInv, Midnight
  PROVE  PriceInv'
<1>1. /\ day \in 1..MaxDay /\ day < MaxDay /\ day' = day + 1 /\ updatesToday' = updatesToday
      /\ lastDay' = lastDay /\ ticks' = ticks /\ spent' = spent
  BY Zenon DEF Midnight, PriceInv, PriceTyped
<1>2. day \in Nat /\ day' \in 1..MaxDay /\ day < day' /\ \A d \in 1..MaxDay : d < day' => d < day \/ d = day
  BY <1>1 DEF PriceConstants
<1>3. \A d \in 1..MaxDay : d > day' => d > day
  BY <1>1
<1>4. PriceTyped'
  <2>1. \A k \in Keepers : lastDay[k] \in Nat /\ lastDay[k] <= day
    BY Zenon DEF PriceInv, PriceTyped
  <2>2. \A k \in Keepers : lastDay'[k] <= day'
    BY <1>1, <1>2, <2>1
  <2>3. TicksShaped'
    BY Zenon, <1>1 DEF PriceInv, PriceTyped, TicksShaped
  <2> QED
    BY Zenon, <1>1, <1>2, <2>2, <2>3 DEF PriceInv, PriceTyped
<1>5. ASSUME NEW k \in Keepers
      PROVE  KeeperBooks(k)'
  <2> DEFINE P == Num(ticks, k, Past)
             C == Num(ticks, k, {"count"})
             U == updatesToday[k]
             X == spent[k][day]
             G == Grace(k)
  <2>1. U \in Nat /\ X \in Nat /\ lastDay[k] \in Nat /\ lastDay[k] <= day
    BY Zenon, <1>1 DEF PriceInv, PriceTyped
  <2>2. P \in Nat /\ C \in Nat /\ C <= P
    BY Zenon, NumBounded, CountingArePast
  <2>3. Books(U, P, C, X, G) /\ G \in {0, Bound}
    BY Zenon DEF PriceInv, KeeperBooks, Grace
  <2>4. X <= 2 * Bound
    BY Zenon, <2>1, <2>2, <2>3, BooksBound
  <2>5. Grace(k)' = 0
    <3>1. lastDay[k] # day'
      BY <1>2, <2>1
    <3> QED
      BY Zenon, <1>1, <3>1 DEF Grace
  <2>6. spent[k][day'] = 0
    <3>1. day' > day
      BY Zenon, <1>2
    <3> QED
      BY Zenon, <1>2, <3>1 DEF PriceInv, KeeperBooks
  <2>7. Books(U, P, C, 0, 0)
    <3>1. U + P <= Bound
      BY Zenon, <2>3 DEF Books
    <3> HIDE DEF U, P, C
    <3>2. 0 <= U + C + 0
      BY <2>1, <2>2
    <3> QED
      BY Zenon, <3>1, <3>2 DEF Books
  <2>8. ASSUME NEW d \in 1..MaxDay
        PROVE  (d < day' => spent'[k][d] <= 2 * Bound) /\ (d > day' => spent'[k][d] = 0)
    BY Zenon, <1>1, <1>2, <1>3, <2>4 DEF PriceInv, KeeperBooks
  <2> QED
    BY Zenon, <1>1, <2>5, <2>6, <2>7, <2>8 DEF KeeperBooks
<1> QED
  BY Zenon, <1>4, <1>5 DEF PriceInv

(* SpendBounded for every number of keepers, paymasters, overlapping ticks *)
(* and days: the cap bounds the gas a keeper spends in a day, because a    *)
(* tick past the check is one of MaxOverlap, the count it passed below the *)
(* cap, and a broadcast is counted or about to be unless midnight came     *)
(* between (tick, refreshOne).                                             *)
THEOREM SpendBoundedHolds ==
  ASSUME PriceConstants
  PROVE  KeeperSpec => []SpendBounded
<1>1. KeeperInit => PriceInv
  <2> SUFFICES ASSUME KeeperInit PROVE PriceInv
    BY Zenon
  <2>1. /\ day = 1 /\ updatesToday = [k \in Keepers |-> 0] /\ lastDay = [k \in Keepers |-> 1]
        /\ ticks = {} /\ spent = [k \in Keepers |-> [d \in 1..MaxDay |-> 0]]
    BY Zenon DEF KeeperInit
  <2>2. PriceTyped
    BY <2>1 DEF PriceTyped, TicksShaped, PriceConstants
  <2>3. ASSUME NEW k \in Keepers
        PROVE  KeeperBooks(k)
    <3>1. ASSUME NEW S PROVE Num(ticks, k, S) = 0
      <4>1. Ids(ticks, k, S) = {}
        BY ZenonT(30), <2>1 DEF Ids
      <4> QED
        BY Zenon, <4>1, FS_EmptySet DEF Num
    <3>2. Num(ticks, k, Past) = 0 /\ Num(ticks, k, {"count"}) = 0
      BY Zenon, <3>1
    <3>3. updatesToday[k] = 0 /\ \A d \in 1..MaxDay : spent[k][d] = 0
      BY Zenon, <2>1
    <3>4. spent[k][day] = 0 /\ \A d \in 1..MaxDay : ~(d < day)
      BY <2>1, <3>3 DEF PriceConstants
    <3>5. Books(0, 0, 0, 0, Bound)
      BY DEF Books, Bound, PriceConstants
    <3>6. Grace(k) = Bound
      BY Zenon, <2>1 DEF Grace
    <3> QED
      BY Zenon, <3>2, <3>3, <3>4, <3>5, <3>6 DEF KeeperBooks
  <2> QED
    BY Zenon, <2>2, <2>3 DEF PriceInv
<1>2. PriceInv /\ [KeeperNext]_kvars => PriceInv'
  <2> SUFFICES ASSUME PriceInv, [KeeperNext]_kvars PROVE PriceInv'
    OBVIOUS
  <2>1. ASSUME NEW k \in Keepers, NEW id \in 1..MaxOverlap, TickStart(k, id) PROVE PriceInv'
    BY Zenon, <2>1, TickStarts
  <2>2. ASSUME NEW t \in ticks, TickStep(t) PROVE PriceInv'
    BY Zenon, <2>2, TickKeeps
  <2>3. CASE Midnight
    BY Zenon, <2>3, MidnightKeeps
  <2>4. CASE UNCHANGED <<day, updatesToday, lastDay, ticks, spent>>
    <3>1. PriceTyped'
      BY Zenon, <2>4 DEF PriceInv, PriceTyped, TicksShaped
    <3>2. ASSUME NEW k \in Keepers PROVE KeeperBooks(k)'
      <4>1. Grace(k)' = Grace(k)
        BY Zenon, <2>4 DEF Grace
      <4> QED
        BY Zenon, <2>4, <4>1 DEF PriceInv, KeeperBooks
    <3> QED
      BY Zenon, <3>1, <3>2 DEF PriceInv
  <2>5. ASSUME NEW u, MineUpdate(u) PROVE PriceInv'
    BY Zenon, <2>4, <2>5 DEF MineUpdate
  <2>6. ASSUME NEW a, NearsStaleness(a) PROVE PriceInv'
    BY Zenon, <2>4, <2>6 DEF NearsStaleness
  <2>7. CASE UNCHANGED kvars
    BY Zenon, <2>4, <2>7 DEF kvars
  <2> QED
    BY Zenon, <2>1, <2>2, <2>3, <2>5, <2>6, <2>7 DEF KeeperNext
<1>3. PriceInv => SpendBounded
  <2> SUFFICES ASSUME PriceInv, NEW k \in Keepers, NEW d \in 1..MaxDay
               PROVE  spent[k][d] <= 2 * Bound
    BY Zenon DEF SpendBounded, Bound
  <2>1. /\ updatesToday[k] \in Nat /\ spent[k][day] \in Nat /\ day \in 1..MaxDay
    BY Zenon DEF PriceInv, PriceTyped
  <2>2. Num(ticks, k, Past) \in Nat /\ Num(ticks, k, {"count"}) \in Nat
        /\ Num(ticks, k, {"count"}) <= Num(ticks, k, Past)
    BY Zenon, NumBounded, CountingArePast
  <2>3. /\ Books(updatesToday[k], Num(ticks, k, Past), Num(ticks, k, {"count"}), spent[k][day], Grace(k))
        /\ Grace(k) \in {0, Bound}
    BY Zenon DEF PriceInv, KeeperBooks, Grace
  <2>4. spent[k][day] <= 2 * Bound /\ Bound \in Nat
    BY Zenon, <2>1, <2>2, <2>3, BooksBound
  <2>5. (d < day => spent[k][d] <= 2 * Bound) /\ (d > day => spent[k][d] = 0)
    BY Zenon DEF PriceInv, KeeperBooks
  <2>6. d < day \/ d = day \/ d > day
    BY <2>1
  <2> HIDE DEF Bound
  <2>7. 0 <= 2 * Bound
    BY <2>4
  <2> QED
    BY Zenon, <2>4, <2>5, <2>6, <2>7
<1> QED
  BY <1>1, <1>2, <1>3, PTL DEF KeeperSpec
================================================================================
