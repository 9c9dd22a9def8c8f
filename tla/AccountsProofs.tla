--------------------- MODULE AccountsProofs ---------------------
(***************************************************************************)
(* What holds of the parts that decide who may do what, for every value of *)
(* the constants: any number of users' tokens, keys, roles, connections,   *)
(* links, pods, environments and requests, and every limit.  A behaviour   *)
(* of all the parts is one of each, so what is proved of a part holds of   *)
(* the whole.  Each part has its inductive invariant, named for the part,  *)
(* with a lemma that it holds at the start (...Start), one that every step *)
(* keeps it (...Step) and one that it says what the runs check (...Good).  *)
(***************************************************************************)
EXTENDS Accounts, FiniteSums, SequenceTheorems

-----------------------------------------------------------------------------
(* The limiter of creations: what it counts, and by how much it overshoots.  *)

IInv == LimiterTypeOK /\ OvershootBounded

LEMMA Counting ==
    /\ Cardinality(Clients) \in Nat
    /\ Recording \subseteq Clients
    /\ IsFiniteSet(Recording)
    /\ Cardinality(Recording) \in Nat
  BY LimiterAssumption, FS_Subset, FS_CardinalityType DEF Recording

LEMMA InitInv == LimiterInit => IInv
<1> SUFFICES ASSUME LimiterInit PROVE IInv
  OBVIOUS
<1>1. LimiterTypeOK
  BY LimiterAssumption DEF LimiterInit, LimiterTypeOK
<1>2. Recording = {}
  BY DEF LimiterInit, Recording
<1>3. Cardinality(Recording) = 0 /\ Len(counts) = 0
  BY <1>2, FS_EmptySet DEF LimiterInit
<1> QED
  BY <1>1, <1>3, Counting, LimiterAssumption DEF IInv, OvershootBounded

LEMMA CheckStep ==
    ASSUME IInv, NEW c \in Clients, Check(c)
    PROVE  IInv'
<1>1. PICK k \in 0 .. Len(counts) :
        /\ DropsExpired(k)
        /\ IF Admitted(Len(counts) - k)
           THEN /\ pc' = [pc EXCEPT ![c] = "record"]
                /\ UNCHANGED retryAfter
           ELSE /\ pc' = [pc EXCEPT ![c] = "refused"]
                /\ retryAfter' = [retryAfter EXCEPT ![c] = RetryAfter(counts[k + 1])]
  BY DEF Check
<1>2. counts \in Seq(0 .. Window) /\ Len(counts) \in Nat /\ k \in 0 .. Len(counts)
  BY <1>1 DEF IInv, LimiterTypeOK
<1>3. counts' \in Seq(0 .. Window) /\ Len(counts') = Len(counts) - k
  <2>1. counts' = SubSeq(counts, k + 1, Len(counts))
    BY <1>1 DEF DropsExpired
  <2>2. \A i \in k + 1 .. Len(counts) : counts[i] \in 0 .. Window
    <3>1. \A i \in 1 .. Len(counts) : counts[i] \in 0 .. Window
      BY <1>2, ElementOfSeq
    <3> QED
      BY <1>2, <3>1
  <2>3. CASE k = Len(counts)
    <3>1. counts' = << >>
      BY <1>2, <2>1, <2>3, SubSeqProperties
    <3> QED
      BY <1>2, <2>3, <3>1
  <2>4. CASE k < Len(counts)
    <3>1. k + 1 \in 1 .. Len(counts) + 1 /\ Len(counts) \in k + 1 - 1 .. Len(counts)
      BY <1>2, <2>4
    <3> QED
      BY <1>2, <2>1, <2>2, <2>4, <3>1, SubSeqProperties
  <2> QED
    BY <1>2, <2>3, <2>4
<1>4. pc[c] # "record"
  BY DEF Check
<1>5. CASE Admitted(Len(counts) - k)
  <2>1. pc' = [pc EXCEPT ![c] = "record"] /\ retryAfter' = retryAfter
    BY <1>1, <1>5
  <2>2. Recording' \subseteq Clients
    BY DEF Recording
  <2>3. Cardinality(Recording') \in Nat /\ Cardinality(Recording') <= Cardinality(Clients)
    BY <2>2, LimiterAssumption, FS_Subset, FS_CardinalityType
  <2>4. Len(counts') <= Limit - 1
    BY <1>2, <1>3, <1>5, LimiterAssumption DEF Admitted
  <2>5. OvershootBounded'
    BY <1>2, <1>3, <2>3, <2>4, Counting, LimiterAssumption DEF OvershootBounded
  <2>6. LimiterTypeOK'
    BY <1>3, <2>1 DEF IInv, LimiterTypeOK
  <2> QED
    BY <2>5, <2>6 DEF IInv
<1>6. CASE ~Admitted(Len(counts) - k)
  <2>1. /\ pc' = [pc EXCEPT ![c] = "refused"]
        /\ retryAfter' = [retryAfter EXCEPT ![c] = RetryAfter(counts[k + 1])]
    BY <1>1, <1>6
  <2>2. k + 1 \in 1 .. Len(counts)
    BY <1>2, <1>6, LimiterAssumption DEF Admitted
  <2>3. counts[k + 1] \in 0 .. Window
    BY <1>2, <2>2, ElementOfSeq
  <2>4. RetryAfter(counts[k + 1]) \in 0 .. Window
    BY <2>3, LimiterAssumption DEF RetryAfter
  <2>5. LimiterTypeOK'
    BY <1>3, <2>1, <2>4 DEF IInv, LimiterTypeOK
  <2>6. Recording' = Recording
    BY <1>4, <2>1 DEF Recording, IInv, LimiterTypeOK
  <2>7. OvershootBounded'
    BY <1>2, <1>3, <2>6, Counting, LimiterAssumption DEF IInv, OvershootBounded
  <2> QED
    BY <2>5, <2>7 DEF IInv
<1> QED
  BY <1>5, <1>6

LEMMA RecordStep ==
    ASSUME IInv, NEW c \in Clients, Record(c)
    PROVE  IInv'
<1>1. /\ pc[c] = "record" /\ counts' = Append(counts, 0)
      /\ pc' = [pc EXCEPT ![c] = "idle"] /\ retryAfter' = retryAfter
  BY DEF Record
<1>2. counts' \in Seq(0 .. Window) /\ Len(counts') = Len(counts) + 1 /\ Len(counts) \in Nat
  BY <1>1, LimiterAssumption DEF IInv, LimiterTypeOK
<1>3. Recording' = Recording \ {c} /\ c \in Recording
  BY <1>1 DEF Recording, IInv, LimiterTypeOK
<1>4. Cardinality(Recording') = Cardinality(Recording) - 1
  BY <1>3, Counting, FS_RemoveElement
<1>5. LimiterTypeOK'
  BY <1>1, <1>2 DEF IInv, LimiterTypeOK
<1> QED
  BY <1>2, <1>4, <1>5, Counting, LimiterAssumption DEF IInv, OvershootBounded

LEMMA TickStep ==
    ASSUME IInv, Tick
    PROVE  IInv'
<1>1. /\ counts' = [i \in 1 .. Len(counts) |->
                      IF counts[i] < Window THEN counts[i] + 1 ELSE Window]
      /\ pc' = pc
  BY DEF Tick
<1>2. counts \in Seq(0 .. Window) /\ Len(counts) \in Nat
  BY DEF IInv, LimiterTypeOK
<1>3. \A i \in 1 .. Len(counts) : counts[i] \in 0 .. Window
  BY <1>2, ElementOfSeq
<1>4. \A i \in 1 .. Len(counts) :
         (IF counts[i] < Window THEN counts[i] + 1 ELSE Window) \in 0 .. Window
  BY <1>3, LimiterAssumption
<1>5. counts' \in Seq(0 .. Window) /\ Len(counts') = Len(counts)
  BY <1>1, <1>2, <1>4, IsASeq, LenProperties
<1>6. retryAfter' \in [Clients -> 0 .. Window]
  BY LimiterAssumption DEF Tick, IInv, LimiterTypeOK
<1>7. Recording' = Recording
  BY <1>1 DEF Recording
<1> QED
  BY <1>1, <1>5, <1>6, <1>7 DEF IInv, LimiterTypeOK, OvershootBounded

LEMMA Invariance == LimiterSpec => []IInv
<1>1. IInv /\ [LimiterNext]_limiterVars => IInv'
  <2> SUFFICES ASSUME IInv, [LimiterNext]_limiterVars PROVE IInv'
    OBVIOUS
  <2>1. CASE UNCHANGED limiterVars
    BY <2>1 DEF limiterVars, IInv, LimiterTypeOK, OvershootBounded, Recording
  <2> QED
    BY <2>1, CheckStep, RecordStep, TickStep DEF LimiterNext
<1> QED
  BY <1>1, InitInv, PTL DEF LimiterSpec

\* Check and Record keep the entries ages within the window and the promised
\* waiting times between 0 and the window.
THEOREM LimiterTyped == LimiterSpec => []LimiterTypeOK
<1>1. IInv => LimiterTypeOK
  BY DEF IInv
<1> QED
  BY <1>1, Invariance, PTL

\* However the Check and Record sections of concurrent Create requests
\* interleave, they exceed the limit by less than their number.
THEOREM OvershootIsBounded == LimiterSpec => []OvershootBounded
<1>1. IInv => OvershootBounded
  BY DEF IInv
<1> QED
  BY <1>1, Invariance, PTL

-----------------------------------------------------------------------------
(* Refresh tokens.  That one is exchanged once needs that whoever is about   *)
(* to issue a new one has revoked it, and that nobody else holds it.         *)

Undisturbed(t) ==
    /\ exchanged[t] = 0 \/ exchanged[t] = 1
    /\ exchanged[t] = 1 => /\ tokens[t] = "revoked"
                           /\ \A v \in Visitor : visit[v].token # t
    /\ \A v, w \in Visitor : visit[v].token = t /\ visit[w].token = t => v = w
    /\ \A v \in Visitor : visit[v].token = t /\ visit[v].at = "issue" => tokens[t] = "revoked"

SessionsInv ==
    /\ SessionsTypeOK
    /\ \A t \in Token : tokens[t] # "unissued" => session[t] \in Token
    /\ \A v \in Visitor : IF visit[v].at = "idle" THEN visit[v].token = NoToken
                          ELSE visit[v].token \in Token /\ tokens[visit[v].token] # "unissued"
    /\ \A t \in Token \ shared : Undisturbed(t)

LEMMA SessionsStart == SessionsInit => SessionsInv
  BY NoTokenAssumption DEF SessionsInit, SessionsInv, SessionsTypeOK, Undisturbed, Away

LEMMA SessionsStep ==
    ASSUME SessionsInv, [SessionsNext]_sessionVars
    PROVE  SessionsInv'
<1> USE NoTokenAssumption DEF SessionsInv, SessionsTypeOK, Undisturbed, Away
<1>1. ASSUME NEW t \in Token, Login(t) PROVE SessionsInv'
  BY <1>1 DEF Login, Insert
<1>2. ASSUME NEW v \in Visitor, NEW t \in Token, GenerateTokenPair(v, t) PROVE SessionsInv'
  BY <1>2 DEF GenerateTokenPair, Insert
<1>3. ASSUME NEW v \in Visitor, NEW t \in Token, PresentToken(v, t) PROVE SessionsInv'
  BY <1>3 DEF PresentToken, PresentTokenUnchecked
<1>4. ASSUME NEW v \in Visitor, NEW updated \in BOOLEAN, RefreshToken(v, updated)
      PROVE  SessionsInv'
  BY <1>4 DEF RefreshToken
<1>5. ASSUME NEW v \in Visitor, TokenPairFails(v) PROVE SessionsInv'
  BY <1>5 DEF TokenPairFails
<1>6. ASSUME NEW t \in Token, TokenExpires(t) PROVE SessionsInv'
  BY <1>6 DEF TokenExpires
<1>7. CASE Logout
  BY <1>7 DEF Logout, Revoked, Refreshing
<1>8. CASE UNCHANGED sessionVars
  BY <1>8 DEF sessionVars
<1> QED
  BY <1>1, <1>2, <1>3, <1>4, <1>5, <1>6, <1>7, <1>8 DEF SessionsNext

-----------------------------------------------------------------------------
(* Recovery codes.  That one lets its user in once needs that a batch is     *)
(* inserted once, before anybody can use it.                                 *)

\* Whoever is about to insert a batch is the only one who knows it.
NotYetInserted(d) ==
    LET b == dialog[d].batch
    IN /\ b \in generated /\ logins[b] = 0
       /\ \A c \in codes : c.batch # b
       /\ \A e \in Dialog \ {d} : dialog[e].batch # b

Unraced(b) ==
    /\ logins[b] = 0 \/ logins[b] = 1
    /\ logins[b] = 1 => /\ \A c \in codes : c.batch = b => c.used
                        /\ \A d \in Dialog : dialog[d].batch # b
    /\ \A d, e \in Dialog : dialog[d].batch = b /\ dialog[e].batch = b => d = e

CodesInv ==
    /\ MfaTypeOK
    /\ \A c \in codes : c.batch \in generated
    /\ \A b \in Secret : logins[b] > 0 => b \in generated
    /\ \A d \in Dialog :
          /\ dialog[d].at \in {"secret", "newCodes"} => NotYetInserted(d)
          /\ dialog[d].batch # 0 => dialog[d].batch \in generated
          /\ dialog[d].at = "useCode" => dialog[d].batch # 0
          /\ dialog[d].at \notin {"secret", "newCodes", "useCode"} => dialog[d].batch = 0
    /\ \A b \in Secret \ codesRaced : Unraced(b)

LEMMA RowsTyped ==
    /\ NoUserRow \in UserRow /\ Quiet.row \in UserRow
    /\ \A r \in UserRow :
          /\ [r EXCEPT !.enabled = TRUE] \in UserRow
          /\ [r EXCEPT !.enabled = FALSE, !.secret = 0] \in UserRow
    /\ \A k \in Secret : [batch |-> k, used |-> TRUE] \in Code /\ [batch |-> k, used |-> FALSE] \in Code
<1>1. NoUserRow \in UserRow
  BY MaxRolesAssumption DEF UserRow, NoUserRow
<1>2. ASSUME NEW r \in UserRow
      PROVE  /\ [r EXCEPT !.enabled = TRUE] \in UserRow
             /\ [r EXCEPT !.enabled = FALSE, !.secret = 0] \in UserRow
  BY DEF UserRow
<1>3. ASSUME NEW k \in Secret
      PROVE  [batch |-> k, used |-> TRUE] \in Code /\ [batch |-> k, used |-> FALSE] \in Code
  BY DEF Code
<1> QED
  BY <1>1, <1>2, <1>3 DEF Quiet

LEMMA CodesStart == MfaInit => CodesInv
<1> SUFFICES ASSUME MfaInit PROVE CodesInv
  OBVIOUS
<1>1. MfaTypeOK
  <2>1. userRow \in UserRow /\ dialog \in [Dialog -> [at : DialogPlace, row : UserRow, batch : Secret \cup {0}]]
    BY RowsTyped DEF MfaInit, Quiet, DialogPlace
  <2>2. codes \subseteq Code /\ logins \in [Secret -> Nat] /\ overtaken \in BOOLEAN
    BY DEF MfaInit
  <2> QED
    BY <2>1, <2>2, MaxRolesAssumption DEF MfaInit, MfaTypeOK
<1>2. \A d \in Dialog : dialog[d].at = "idle" /\ dialog[d].batch = 0
  BY DEF MfaInit, Quiet
<1> QED
  BY <1>1, <1>2, SecretAssumption DEF MfaInit, CodesInv, Unraced

LEMMA DialogueTyped ==
    ASSUME NEW place \in DialogPlace, NEW row \in UserRow, NEW batch \in Secret \cup {0}
    PROVE  [at |-> place, row |-> row, batch |-> batch]
              \in [at : DialogPlace, row : UserRow, batch : Secret \cup {0}]
  OBVIOUS

LEMMA EnableStep ==
    ASSUME CodesInv, NEW d \in Dialog, ReadForEnable(d) \/ ReadForDisable(d)
    PROVE  CodesInv'
<1> USE SecretAssumption DEF CodesInv, MfaTypeOK, Unraced, NotYetInserted
<1>1. dialog' \in [Dialog -> [at : DialogPlace, row : UserRow, batch : Secret \cup {0}]]
  <2>1. /\ [userRow EXCEPT !.enabled = TRUE] \in UserRow
        /\ [userRow EXCEPT !.enabled = FALSE, !.secret = 0] \in UserRow
    BY RowsTyped
  <2>2. ASSUME NEW row \in UserRow, NEW place \in {"enable", "disable"}
        PROVE  [dialog EXCEPT ![d] = [at |-> place, row |-> row, batch |-> 0]]
                  \in [Dialog -> [at : DialogPlace, row : UserRow, batch : Secret \cup {0}]]
    BY DialogueTyped DEF DialogPlace
  <2>3. \E row \in UserRow, place \in {"enable", "disable"} :
           dialog' = [dialog EXCEPT ![d] = [at |-> place, row |-> row, batch |-> 0]]
    BY <2>1 DEF ReadForEnable, ReadForDisable, ReadUser
  <2> QED
    BY <2>2, <2>3
<1>2. CASE ReadForEnable(d)
  <2>1. userRow.secret \in Secret
    BY <1>2 DEF ReadForEnable, UserRow
  <2> QED
    BY <1>1, <1>2, <2>1 DEF ReadForEnable, ReadUser
<1>3. CASE ReadForDisable(d)
  BY <1>1, <1>3 DEF ReadForDisable, ReadUser
<1> QED
  BY <1>2, <1>3

LEMMA MatchStep ==
    ASSUME CodesInv, NEW d \in Dialog, NEW c \in codes, MatchCode(d, c)
    PROVE  CodesInv'
<1> USE SecretAssumption DEF CodesInv, MfaTypeOK, MatchCode, MatchCodeUsedOrNot, ReadUser
<1>1. c.batch \in Secret /\ c.batch \in generated /\ c.batch # 0
  BY DEF Code
<1>2. dialog' \in [Dialog -> [at : DialogPlace, row : UserRow, batch : Secret \cup {0}]]
  BY <1>1, DialogueTyped DEF DialogPlace
<1>3. MfaTypeOK'
  BY <1>1, <1>2
<1>4. c.batch \notin codesRaced' => \A e \in Dialog : dialog[e].batch # c.batch
  BY <1>1 DEF NotYetInserted
<1>5. c.batch \notin codesRaced' => logins[c.batch] = 0
  BY <1>1 DEF Unraced
<1>6. \A b \in Secret \ codesRaced' : Unraced(b)'
  BY <1>1, <1>4, <1>5 DEF Unraced
<1>7. ASSUME NEW e \in Dialog, dialog'[e].at \in {"secret", "newCodes"} PROVE NotYetInserted(e)'
  BY <1>1, <1>7 DEF NotYetInserted
<1> QED
  BY <1>1, <1>3, <1>6, <1>7

LEMMA UseStep ==
    ASSUME CodesInv, NEW d \in Dialog, NEW saved \in BOOLEAN, VerifyRecoveryCode(d, saved)
    PROVE  CodesInv'
<1> USE SecretAssumption DEF CodesInv, MfaTypeOK, VerifyRecoveryCode, Quiet
<1> DEFINE b == dialog[d].batch
<1>1. b \in Secret /\ b \in generated
  OBVIOUS
<1>2. dialog' \in [Dialog -> [at : DialogPlace, row : UserRow, batch : Secret \cup {0}]]
  BY RowsTyped, DialogueTyped DEF DialogPlace
<1>3. codes' \subseteq Code /\ \A c \in codes' : c.batch \in generated
  <2>1. [batch |-> b, used |-> TRUE] \in Code
    BY <1>1, RowsTyped
  <2>2. {c \in codes : c.batch # b} \cup {[batch |-> b, used |-> TRUE]} \subseteq Code
    BY <2>1
  <2>3. \A c \in {c \in codes : c.batch # b} \cup {[batch |-> b, used |-> TRUE]} :
           c.batch \in generated
    BY <1>1
  <2>4. codes' = IF saved THEN {c \in codes : c.batch # b} \cup {[batch |-> b, used |-> TRUE]}
                 ELSE codes
    OBVIOUS
  <2> QED
    BY <2>2, <2>3, <2>4
<1>4. MfaTypeOK'
  <2>1. logins' \in [Secret -> Nat]
    <3>1. logins[b] \in Nat /\ logins' = [logins EXCEPT ![b] = logins[b] + 1]
      BY <1>1
    <3> QED
      BY <1>1, <3>1
  <2>2. codesRaced' \subseteq Secret
    BY <1>1
  <2> QED
    BY <1>2, <1>3, <2>1, <2>2
<1>5. \A c \in Secret \ codesRaced' : Unraced(c)'
  BY <1>1 DEF Unraced
<1>6. ASSUME NEW e \in Dialog, dialog'[e].at \in {"secret", "newCodes"} PROVE NotYetInserted(e)'
  BY <1>1, <1>6 DEF NotYetInserted
<1> QED
  BY <1>1, <1>3, <1>4, <1>5, <1>6

LEMMA CodesStep ==
    ASSUME CodesInv, [MfaNext]_mfaVars
    PROVE  CodesInv'
<1> USE SecretAssumption, MaxRolesAssumption
    DEF CodesInv, MfaTypeOK, Unraced, NotYetInserted, Quiet, NoUserRow, UserRow, Code, DialogPlace
<1>1. ASSUME NEW d \in Dialog, NEW k \in Secret, ReadForSetup(d, k) PROVE CodesInv'
  BY <1>1 DEF ReadForSetup, Fresh, ReadUser
<1>2. ASSUME NEW d \in Dialog, SetupMFA(d) PROVE CodesInv'
  BY <1>2 DEF SetupMFA, SaveUser
<1>3. ASSUME NEW d \in Dialog, GenerateRecoveryCodes(d) PROVE CodesInv'
  BY <1>3 DEF GenerateRecoveryCodes
<1>4. ASSUME NEW d \in Dialog, ReadForEnable(d) PROVE CodesInv'
  BY <1>4, EnableStep
<1>5. ASSUME NEW d \in Dialog, VerifyAndEnableMFA(d) PROVE CodesInv'
  BY <1>5 DEF VerifyAndEnableMFA, SaveUser
<1>6. ASSUME NEW d \in Dialog, ReadForDisable(d) PROVE CodesInv'
  BY <1>6, EnableStep
<1>7. ASSUME NEW d \in Dialog, DisableMFA(d) PROVE CodesInv'
  BY <1>7 DEF DisableMFA, SaveUser
<1>8. ASSUME NEW d \in Dialog, DeleteCodes(d) PROVE CodesInv'
  BY <1>8 DEF DeleteCodes
<1>9. ASSUME NEW d \in Dialog, NEW k \in Secret, RegenerateRecoveryCodes(d, k) PROVE CodesInv'
  BY <1>9 DEF RegenerateRecoveryCodes, Fresh, ReadUser
<1>10. ASSUME NEW d \in Dialog, NEW c \in codes, MatchCode(d, c) PROVE CodesInv'
  BY <1>10, MatchStep
<1>11. ASSUME NEW d \in Dialog, NEW saved \in BOOLEAN, VerifyRecoveryCode(d, saved) PROVE CodesInv'
  BY <1>11, UseStep
<1>12. CASE SetRoleColumn
  BY <1>12 DEF SetRoleColumn
<1>13. ASSUME NEW d \in Dialog, DialogFails(d) PROVE CodesInv'
  BY <1>13 DEF DialogFails
<1>14. CASE UNCHANGED mfaVars
  BY <1>14 DEF mfaVars
<1> HIDE DEF CodesInv, MfaTypeOK, Unraced, NotYetInserted
<1> QED
  BY <1>1, <1>2, <1>3, <1>4, <1>5, <1>6, <1>7, <1>8, <1>9, <1>10, <1>11, <1>12, <1>13, <1>14
     DEF MfaNext

\* The ages stay in their order: a prefix goes, a new entry is the youngest, and all
\* grow alike.
LEMMA OldestFirstStep ==
    ASSUME LimiterTypeOK, OldestFirst, LimiterNext
    PROVE  OldestFirst'
<1>1. /\ Len(counts) \in Nat /\ DOMAIN counts = 1 .. Len(counts)
      /\ \A i \in 1 .. Len(counts) : counts[i] \in 0 .. Window
  BY ElementOfSeq, LenProperties DEF LimiterTypeOK
<1>2. \A i, j \in 1 .. Len(counts) : i <= j => counts[i] >= counts[j]
  BY DEF OldestFirst
<1>3. ASSUME Tick
      PROVE  OldestFirst'
  <2> DEFINE Older(i) == IF counts[i] < Window THEN counts[i] + 1 ELSE Window
  <2>1. counts' = [i \in 1 .. Len(counts) |-> Older(i)]
    BY <1>3 DEF Tick
  <2>2. Len(counts') = Len(counts) /\ \A i \in 1 .. Len(counts) : counts'[i] = Older(i)
    BY <1>1, <2>1
  <2>3. \A i, j \in 1 .. Len(counts) : i <= j => Older(i) >= Older(j)
    BY <1>1, <1>2, LimiterAssumption
  <2> HIDE DEF Older
  <2> QED
    BY <2>2, <2>3 DEF OldestFirst
<1>4. ASSUME NEW c \in Clients, Check(c)
      PROVE  OldestFirst'
  <2>1. PICK k \in 0 .. Len(counts) : counts' = SubSeq(counts, k + 1, Len(counts))
    BY <1>4 DEF Check, DropsExpired
  <2>2. Len(counts') = Len(counts) - k /\ \A i \in 1 .. Len(counts) - k : counts'[i] = counts[i + k]
    <3>0. k \in 0 .. Len(counts)
      BY <2>1
    <3>1. k + 1 \in Int /\ Len(counts) \in Int /\ \A i \in k + 1 .. Len(counts) : counts[i] \in 0 .. Window
      BY <1>1, <3>0
    <3>2. /\ Len(counts') = IF k + 1 <= Len(counts) THEN Len(counts) - (k + 1) + 1 ELSE 0
          /\ \A i \in 1 .. Len(counts) - (k + 1) + 1 : counts'[i] = counts[(k + 1) + i - 1]
      BY <2>1, <3>1, SubSeqProperties
    <3>3. /\ Len(counts) - (k + 1) + 1 = Len(counts) - k
          /\ \A i \in 1 .. Len(counts) - k : (k + 1) + i - 1 = i + k
      BY <1>1, <3>0
    <3>4. (k + 1 > Len(counts)) => Len(counts) - k = 0
      <4>1. \A n \in Nat : \A m \in 0 .. n : m + 1 > n => n - m = 0
        OBVIOUS
      <4> QED
        BY <1>1, <3>0, <4>1
    <3>5. \A i \in 1 .. Len(counts) - k : counts'[i] = counts[i + k]
      <4> SUFFICES ASSUME NEW i \in 1 .. Len(counts) - k PROVE counts'[i] = counts[i + k]
        OBVIOUS
      <4>1. i \in 1 .. Len(counts) - (k + 1) + 1 /\ (k + 1) + i - 1 = i + k
        BY <3>3
      <4> QED
        BY <3>2, <4>1
    <3>6. Len(counts') = Len(counts) - k
      <4>1. CASE k + 1 <= Len(counts)
        BY <3>2, <3>3, <4>1
      <4>2. CASE k + 1 > Len(counts)
        <5>1. ~(k + 1 <= Len(counts))
          BY <1>1, <3>0, <4>2
        <5> QED
          BY <3>2, <3>4, <4>2, <5>1
      <4>3. \A n \in Nat : \A m \in 0 .. n : m + 1 <= n \/ m + 1 > n
        OBVIOUS
      <4> QED
        BY <1>1, <3>0, <4>1, <4>2, <4>3
    <3> QED
      BY <3>5, <3>6
  <2> QED
    <3> SUFFICES ASSUME NEW i \in 1 .. Len(counts) - k, NEW j \in 1 .. Len(counts) - k, i <= j
                 PROVE  counts'[i] >= counts'[j]
      BY <2>2 DEF OldestFirst
    <3>1. i + k \in 1 .. Len(counts) /\ j + k \in 1 .. Len(counts) /\ i + k <= j + k
      BY <1>1
    <3> QED
      BY <1>2, <2>2, <3>1
<1>5. ASSUME NEW c \in Clients, Record(c)
      PROVE  OldestFirst'
  <2>1. counts' = Append(counts, 0)
    BY <1>5 DEF Record
  <2>2. /\ Len(counts') = Len(counts) + 1 /\ counts'[Len(counts) + 1] = 0
        /\ \A i \in 1 .. Len(counts) : counts'[i] = counts[i]
    BY <1>1, <2>1 DEF LimiterTypeOK
  <2> QED
    BY <1>1, <1>2, <2>2, LimiterAssumption DEF OldestFirst
<1> QED
  BY <1>3, <1>4, <1>5 DEF LimiterNext

-----------------------------------------------------------------------------
(* Sessions.  One that is to be ended has begun, and a refresh that is under *)
(* way carries it on only if the logout crossed it.                          *)

\* Whoever refreshes a session holds a token that was issued, and every token that
\* was issued is of a session.
Known ==
    /\ SessionsTypeOK
    /\ \A t \in Token : tokens[t] # "unissued" => session[t] \in Token
    /\ \A v \in Visitor : IF visit[v].at = "idle" THEN visit[v].token = NoToken
                          ELSE visit[v].token \in Token /\ tokens[visit[v].token] # "unissued"

EndsInv ==
    /\ \A t \in Token : tokens[t] # "unissued" => tokens[session[t]] # "unissued"
    /\ \A s \in loggedOut : tokens[s] # "unissued"
    /\ \A v \in Visitor : visit[v].token # NoToken /\ session[visit[v].token] \in loggedOut
                              => session[visit[v].token] \in crossed
    /\ LogoutIsFinal
    /\ SessionLasts

LEMMA EndsStart == SessionsInit => EndsInv
  BY NoTokenAssumption DEF SessionsInit, EndsInv, LogoutIsFinal, SessionLasts, Away

\* A refresh under way is one of a token that was issued.
LEMMA UnderWay ==
    ASSUME Known
    PROVE  /\ \A v \in Visitor : visit[v].token # NoToken =>
                 /\ visit[v].token \in Token /\ tokens[visit[v].token] # "unissued"
                 /\ session[visit[v].token] \in Token
           /\ \A s : s \in Refreshing <=>
                 \E v \in Visitor : visit[v].token # NoToken /\ session[visit[v].token] = s
<1>1. \A s : s \in Refreshing <=>
         \E v \in Visitor : visit[v].token # NoToken /\ session[visit[v].token] = s
  BY DEF Refreshing
<1> QED
  BY <1>1, NoTokenAssumption DEF Known, SessionsTypeOK

\* A token of the session s is usable, or the session was to end, or is carried on.
Lasts(s) ==
    \/ \E t \in Token : session[t] = s /\ tokens[t] = "live"
    \/ s \in ended \cup loggedOut
    \/ \E v \in Visitor : visit[v].token # NoToken /\ session[visit[v].token] = s

LEMMA EndsStep ==
    ASSUME Known, Known', EndsInv, [SessionsNext]_sessionVars
    PROVE  EndsInv'
<1> USE NoTokenAssumption DEF Known, SessionsTypeOK, Away, LogoutIsFinal
<1>1. \A s \in Token : session[s] = s => Lasts(s)
  BY UnderWay DEF EndsInv, SessionLasts, Lasts
<1>2. SUFFICES /\ \A t \in Token : tokens'[t] # "unissued" => tokens'[session'[t]] # "unissued"
               /\ \A s \in loggedOut' : tokens'[s] # "unissued"
               /\ \A v \in Visitor : visit'[v].token # NoToken /\ session'[visit'[v].token] \in loggedOut'
                                      => session'[visit'[v].token] \in crossed'
               /\ LogoutIsFinal'
               /\ \A s \in Token : session'[s] = s => Lasts(s)'
  <2> HIDE DEF LogoutIsFinal
  <2>1. \A s \in Token : Lasts(s)' => \/ \E t \in Token : session'[t] = s /\ tokens'[t] = "live"
                                     \/ s \in ended' \cup loggedOut' \cup Refreshing'
    BY DEF Lasts, Refreshing
  <2> QED
    BY <1>2, <2>1 DEF EndsInv, SessionLasts
<1>3. ASSUME NEW t \in Token, Login(t)
      PROVE  /\ \A u \in Token : tokens'[u] # "unissued" => tokens'[session'[u]] # "unissued"
             /\ \A s \in loggedOut' : tokens'[s] # "unissued"
             /\ \A v \in Visitor : visit'[v].token # NoToken /\ session'[visit'[v].token] \in loggedOut'
                                    => session'[visit'[v].token] \in crossed'
             /\ LogoutIsFinal'
             /\ \A s \in Token : session'[s] = s => Lasts(s)'
  BY <1>1, <1>3 DEF Login, Insert, EndsInv, Lasts
<1>4. ASSUME NEW v \in Visitor, NEW t \in Token, GenerateTokenPair(v, t)
      PROVE  /\ \A u \in Token : tokens'[u] # "unissued" => tokens'[session'[u]] # "unissued"
             /\ \A s \in loggedOut' : tokens'[s] # "unissued"
             /\ \A w \in Visitor : visit'[w].token # NoToken /\ session'[visit'[w].token] \in loggedOut'
                                    => session'[visit'[w].token] \in crossed'
             /\ LogoutIsFinal'
             /\ \A s \in Token : session'[s] = s => Lasts(s)'
  BY <1>1, <1>4 DEF GenerateTokenPair, Insert, EndsInv, Lasts
<1>5. CASE \E v \in Visitor, t \in Token : PresentToken(v, t)
  BY <1>1, <1>5 DEF PresentToken, PresentTokenUnchecked, EndsInv, Lasts
<1>6. CASE \E v \in Visitor, updated \in BOOLEAN : RefreshToken(v, updated)
  BY <1>1, <1>6 DEF RefreshToken, EndsInv, Lasts
<1>7. CASE \E v \in Visitor : TokenPairFails(v)
  BY <1>1, <1>7 DEF TokenPairFails, EndsInv, Lasts
<1>8. CASE \E t \in Token : TokenExpires(t)
  BY <1>1, <1>8 DEF TokenExpires, EndsInv, Lasts
<1>9. CASE Logout
  <2>1. \A s : s \in Refreshing <=>
           \E v \in Visitor : visit[v].token # NoToken /\ session[visit[v].token] = s
    BY UnderWay
  <2> QED
    BY <1>1, <1>9, <2>1 DEF Logout, Revoked, EndsInv, Lasts
<1>10. CASE UNCHANGED sessionVars
  BY <1>1, <1>10 DEF sessionVars, EndsInv, Lasts
<1> QED
  BY <1>3, <1>4, <1>5, <1>6, <1>7, <1>8, <1>9, <1>10 DEF SessionsNext

-----------------------------------------------------------------------------
(* The row of the user.  Whatever a request has read and will save is a flag *)
(* with its key.                                                             *)

RowInv ==
    /\ EnabledKeyIsConfirmed /\ RoleChangeStands
    /\ \A d \in Dialog : dialog[d].row.enabled => dialog[d].row.secret \in confirmed

LEMMA RowStart == MfaInit => RowInv
  BY DEF MfaInit, RowInv, EnabledKeyIsConfirmed, RoleChangeStands, NoUserRow, Quiet

LEMMA RowStep ==
    ASSUME MfaTypeOK, RowInv, [MfaNext]_mfaVars
    PROVE  RowInv'
<1> USE MaxRolesAssumption DEF RowInv, EnabledKeyIsConfirmed, RoleChangeStands, MfaTypeOK, Quiet, NoUserRow
<1>1. ASSUME NEW d \in Dialog, NEW k \in Secret, ReadForSetup(d, k) PROVE RowInv'
  BY <1>1 DEF ReadForSetup, ReadUser, UserRow
<1>2. ASSUME NEW d \in Dialog, NEW place, NEW next, SaveUser(d, place, next),
             UNCHANGED <<confirmed, roleSet>>
      PROVE RowInv'
  BY <1>2 DEF SaveUser
<1>3. ASSUME NEW d \in Dialog, ReadForEnable(d) PROVE RowInv'
  BY <1>3 DEF ReadForEnable, ReadUser, UserRow
<1>4. ASSUME NEW d \in Dialog, ReadForDisable(d) PROVE RowInv'
  BY <1>4 DEF ReadForDisable, ReadUser, UserRow
<1>5. ASSUME NEW d \in Dialog,
             \/ GenerateRecoveryCodes(d) \/ DeleteCodes(d) \/ DialogFails(d)
             \/ \E saved \in BOOLEAN : VerifyRecoveryCode(d, saved)
      PROVE RowInv'
  BY <1>5 DEF GenerateRecoveryCodes, DeleteCodes, DialogFails, VerifyRecoveryCode
<1>6. ASSUME NEW d \in Dialog,
             \/ \E k \in Secret : RegenerateRecoveryCodes(d, k)
             \/ \E c \in codes : MatchCode(d, c)
      PROVE RowInv'
  BY <1>6 DEF RegenerateRecoveryCodes, MatchCode, MatchCodeUsedOrNot, ReadUser
<1>7. CASE SetRoleColumn
  BY <1>7 DEF SetRoleColumn, UserRow
<1>8. CASE UNCHANGED mfaVars
  BY <1>8 DEF mfaVars
<1> HIDE DEF RowInv
<1> QED
  BY <1>1, <1>2, <1>3, <1>4, <1>5, <1>6, <1>7, <1>8
     DEF MfaNext, SetupMFA, VerifyAndEnableMFA, DisableMFA

-----------------------------------------------------------------------------
(* API keys.  An update that read a key before it was revoked is the only    *)
(* one that can bring it back.                                               *)

ApiKeysInv ==
    /\ ApiKeysTypeOK
    /\ apiCall \in [ApiClient -> ApiCall \cup {NoRow}]
    /\ \A c \in ApiClient : apiCall[c] # NoRow =>
          apiCall[c].row \in ApiKeyRow /\ apiCall[c].key \in created
    /\ \A k \in ApiKey : apiKeys[k] # NoRow => k \in created
    /\ revoked \subseteq created
    /\ RevokedIsFinal
    /\ \A c \in ApiClient : apiCall[c] # NoRow =>
          (apiCall[c].at = "update" /\ apiCall[c].key \in revoked \ readBefore => ~apiCall[c].row.active)

LEMMA ApiKeysStart == ApiKeysInit => ApiKeysInv
  BY ApiKeyAssumption DEF ApiKeysInit, ApiKeysInv, ApiKeysTypeOK, RevokedIsFinal

LEMMA ApiKeysStep ==
    ASSUME ApiKeysInv, [ApiKeysNext]_apiKeyVars
    PROVE  ApiKeysInv'
<1> USE ApiKeyAssumption DEF ApiKeysInv, ApiKeysTypeOK, RevokedIsFinal, KeyCallBegins
<1>1. ASSUME NEW k \in ApiKey, NEW scopes \in ScopeSet, CreateApiKey(k, scopes) PROVE ApiKeysInv'
  <2>1. [active |-> TRUE, scopes |-> scopes] \in ApiKeyRow
    BY DEF ApiKeyRow
  <2> QED
    BY <1>1, <2>1 DEF CreateApiKey
<1>2. ASSUME NEW k \in ApiKey, RevokeApiKey(k) PROVE ApiKeysInv'
  <2>1. \A r \in ApiKeyRow : [r EXCEPT !.active = FALSE] \in ApiKeyRow /\ ~[r EXCEPT !.active = FALSE].active
    BY DEF ApiKeyRow
  <2> QED
    BY <1>2, <2>1 DEF RevokeApiKey, KeyEnds, BeingUpdated
<1>3. ASSUME NEW k \in ApiKey, DeleteApiKey(k) PROVE ApiKeysInv'
  BY <1>3 DEF DeleteApiKey, KeyEnds, BeingUpdated
<1>4. ASSUME NEW c \in ApiClient, NEW k \in ApiKey, NEW place \in {"update", "touch"}, ReadsKey(c, k, place)
      PROVE ApiKeysInv'
  <2> DEFINE call == [at |-> place, key |-> k, row |-> apiKeys[k]]
  <2>1. /\ call \in ApiCall /\ call.at = place /\ call.key = k /\ call.row = apiKeys[k]
        /\ apiKeys[k] \in ApiKeyRow /\ apiKeys[k] # NoRow
    BY <1>4 DEF ReadsKey, ApiCall
  <2>2. apiCall' = [apiCall EXCEPT ![c] = call] /\ UNCHANGED <<apiKeys, created, revoked, readBefore>>
    BY <1>4 DEF ReadsKey
  <2>3. keyCalls' \in 0..MaxKeyCalls
    BY <1>4 DEF ReadsKey
  <2> HIDE DEF call
  <2> QED
    BY <2>1, <2>2, <2>3
<1>5. ASSUME NEW c \in ApiClient, NEW scopes \in ScopeSet, UpdateApiKey(c, scopes) PROVE ApiKeysInv'
  <2>1. \A r \in ApiKeyRow : /\ [r EXCEPT !.scopes = scopes] \in ApiKeyRow
                             /\ [r EXCEPT !.scopes = scopes].active = r.active
    BY DEF ApiKeyRow
  <2>2. apiCall[c] # NoRow /\ apiCall[c].at = "update" /\ apiCall[c].key \in ApiKey
    BY <1>5 DEF UpdateApiKey, CallAt, ApiCall
  <2> QED
    BY <1>5, <2>1, <2>2 DEF UpdateApiKey
<1>6. ASSUME NEW c \in ApiClient, TouchKey(c) PROVE ApiKeysInv'
  BY <1>6 DEF TouchKey
<1>7. CASE UNCHANGED apiKeyVars
  BY <1>7 DEF apiKeyVars
<1> HIDE DEF ApiKeysInv
<1> QED
  BY <1>1, <1>2, <1>3, <1>4, <1>5, <1>6, <1>7 DEF ApiKeysNext, GetForUpdate, ValidateKey

-----------------------------------------------------------------------------
(* Linked accounts.  Unless two unlinkings overlap, one that has counted the *)
(* accounts of a user without a password has two of them before it.          *)

LinksInv ==
    /\ LinksTypeOK
    /\ \A c \in Caller : caller[c].at \in {"findUser", "createUser", "checkLink"}
                             => caller[c].account \in Account
    /\ \A c \in Caller : caller[c].at = "unlink" => user # "absent"
    /\ \/ unlinkRace
       \/ /\ \A c, d \in Caller : caller[c].at = "unlink" /\ caller[d].at = "unlink" => c = d
          /\ \A c \in Caller : caller[c].at = "unlink" /\ user = "passwordless"
                 => \E a, b \in linked : a # b
    /\ user = "passwordless" =>
           \/ linked # {} \/ \E c \in Caller : caller[c].at = "checkLink" /\ caller[c].new
           \/ unlinkRace \/ severalGone \/ brokenLink

\* What a request is, where it may be.
CallerRow == [at : CallerPlace, account : Account \cup {NoAccount},
              provider : Provider \cup {{}}, new : BOOLEAN]

LEMMA CallersTyped ==
    /\ Gone \in CallerRow /\ Gone.at = "idle"
    /\ \A a \in Account : LET beginning == [Gone EXCEPT !.at = "findUser", !.account = a]
                         IN  /\ beginning \in CallerRow
                             /\ beginning.at = "findUser" /\ beginning.account = a
    /\ \A p \in Provider : LET counting == [Gone EXCEPT !.at = "unlink", !.provider = p]
                          IN  counting \in CallerRow /\ counting.at = "unlink"
  BY DEF Gone, CallerRow, CallerPlace

LEMMA LinksStart == LinksInit => LinksInv
<1> SUFFICES ASSUME LinksInit PROVE LinksInv
  OBVIOUS
<1>1. LinksTypeOK
  <2>1. caller \in [Caller -> CallerRow]
    BY CallersTyped DEF LinksInit
  <2> QED
    BY <2>1 DEF LinksInit, LinksTypeOK, CallerRow
<1> QED
  BY <1>1, CallersTyped DEF LinksInit, LinksInv

LEMMA LinksStep ==
    ASSUME LinksInv, [LinksNext]_linkVars
    PROVE  LinksInv'
<1> USE DEF LinksInv, LinksTypeOK, CallerPlace
<1>0. IsFiniteSet(linked)
  BY ProviderAssumption, FS_Subset
<1>1. CASE RegisterUser
  BY <1>1 DEF RegisterUser
<1>2. ASSUME NEW c \in Caller, NEW a \in Account, CallBack(c, a)
      PROVE  LinksInv'
  <2>1. caller' \in [Caller -> CallerRow]
    BY <1>2, CallersTyped DEF CallBack, CallerRow
  <2>2. \A d \in Caller : IF d = c THEN caller'[d].at = "findUser" /\ caller'[d].account = a
                          ELSE caller'[d] = caller[d]
    BY <1>2, CallersTyped DEF CallBack
  <2>3. caller[c].at = "idle" /\ UNCHANGED <<user, linked, unlinkRace, brokenLink, severalGone>>
    BY <1>2 DEF CallBack
  <2>4. \A d \in Caller : caller[d].at = "checkLink" => caller'[d] = caller[d]
    BY <2>2, <2>3
  <2> QED
    BY <2>1, <2>2, <2>3, <2>4 DEF CallerRow
<1>3. CASE \E c \in Caller : LoginOrRegisterWithOAuth(c)
  BY <1>3 DEF LoginOrRegisterWithOAuth
<1>4. ASSUME NEW c \in Caller, CreateUserWithOAuth(c)
      PROVE  LinksInv'
  <2>1. CASE user = "absent"
    <3>1. caller' = [caller EXCEPT ![c].at = "checkLink", ![c].new = TRUE]
      BY <1>4, <2>1 DEF CreateUserWithOAuth
    <3>2. /\ \A d \in Caller \ {c} : caller'[d] = caller[d]
          /\ caller'[c].at = "checkLink" /\ caller'[c].new
          /\ caller'[c].account = caller[c].account
      BY <3>1
    <3>3. [caller[c] EXCEPT !.at = "checkLink", !.new = TRUE] \in CallerRow
      <4>1. \A r \in CallerRow : [r EXCEPT !.at = "checkLink", !.new = TRUE] \in CallerRow
        BY DEF CallerRow
      <4> QED
        BY <4>1 DEF CallerRow
    <3>4. caller' = [caller EXCEPT ![c] = [caller[c] EXCEPT !.at = "checkLink", !.new = TRUE]]
      BY <3>1
    <3>5. caller' \in [Caller -> CallerRow]
      BY <3>3, <3>4 DEF CallerRow
    <3> QED
      BY <1>4, <2>1, <3>2, <3>5 DEF CreateUserWithOAuth, CallerRow
  <2>2. CASE user # "absent"
    <3>1. caller' = [caller EXCEPT ![c] = Gone] /\ UNCHANGED user
      BY <1>4, <2>2 DEF CreateUserWithOAuth
    <3>2. caller' \in [Caller -> CallerRow]
      BY <3>1, CallersTyped DEF CallerRow
    <3>3. \A d \in Caller : IF d = c THEN caller'[d].at = "idle" ELSE caller'[d] = caller[d]
      BY <3>1, CallersTyped
    <3>4. caller[c].at = "createUser" /\ UNCHANGED <<linked, unlinkRace, brokenLink, severalGone>>
      BY <1>4 DEF CreateUserWithOAuth
    <3>5. \A d \in Caller : caller[d].at = "checkLink" => caller'[d] = caller[d]
      BY <3>3, <3>4
    <3> QED
      BY <3>1, <3>2, <3>3, <3>4, <3>5 DEF CallerRow
  <2> QED
    BY <2>1, <2>2
<1>5. ASSUME NEW c \in Caller, LinkOAuthAccount(c)
      PROVE  LinksInv'
  BY <1>5 DEF LinkOAuthAccount, Gone
<1>6. ASSUME NEW c \in Caller, LinkFails(c)
      PROVE  LinksInv'
  BY <1>6 DEF LinkFails, Gone
<1>7. ASSUME NEW c \in Caller, NEW p \in Provider, Count(c, p)
      PROVE  LinksInv'
  <2>1. user = "password" \/ \E a, b \in linked : a # b
    BY <1>7, <1>0, MoreThanOne DEF Count
  <2> QED
    BY <1>7, <2>1 DEF Count, CountUnguarded, Gone
<1>8. ASSUME NEW c \in Caller, UnlinkOAuthAccount(c)
      PROVE  LinksInv'
  <2> DEFINE removed == linked \cap caller[c].provider
  <2>1. IsFiniteSet(removed)
    BY <1>0, FS_Subset
  <2>2. severalGone' \/ \A a, b \in removed : a = b
    BY <2>1, <1>8, MoreThanOne DEF UnlinkOAuthAccount
  <2>3. severalGone' \in BOOLEAN /\ (severalGone => severalGone')
    BY <1>8 DEF UnlinkOAuthAccount
  <2>4. linked' = linked \ removed
    BY <1>8 DEF UnlinkOAuthAccount
  <2>5. LinksTypeOK'
    BY <1>8, <2>3, <2>4 DEF UnlinkOAuthAccount, Gone
  <2>6. user' = "passwordless" => linked' # {} \/ unlinkRace' \/ severalGone' \/ brokenLink'
    BY <1>8, <2>2, <2>4 DEF UnlinkOAuthAccount
  <2> HIDE DEF removed
  <2> QED
    BY <1>8, <2>5, <2>6 DEF UnlinkOAuthAccount, Gone
<1>9. CASE UNCHANGED linkVars
  BY <1>9 DEF linkVars
<1> QED
  BY <1>1, <1>2, <1>3, <1>4, <1>5, <1>6, <1>7, <1>8, <1>9 DEF LinksNext

LEMMA LinksGood == LinksInv => LinksTypeOK /\ CanAlwaysLogIn
  BY DEF LinksInv, CanAlwaysLogIn

-----------------------------------------------------------------------------
(* The caches of roles.  What a cache or a request holds was superseded no   *)
(* longer ago than it is old, and than the requests it went through took.    *)

EntryRow == [present : BOOLEAN, version : Version, age : 0..CacheTTL]

AskerRow == [at : {"idle", "database", "fill", "fillPermissions"},
             wants : {"role", "permissions"}, version : Version, waited : 0..Delay]

RolesInv ==
    /\ RoleCacheTypeOK
    /\ RoleChangeIsSeen
    /\ \A v \in Version : v >= version => superseded[v] = 0
    /\ roleEntry.present => superseded[roleEntry.version] <= roleEntry.age + Delay
    /\ permEntry.present => superseded[permEntry.version] <= CacheTTL + 2 * Delay + permEntry.age
    /\ \A a \in Asker : asker[a].at = "fill" => superseded[asker[a].version] <= asker[a].waited
    /\ \A a \in Asker : asker[a].at = "fillPermissions" =>
           superseded[asker[a].version] <= CacheTTL + Delay + asker[a].waited

LEMMA RolesTyped ==
    /\ NoEntry \in EntryRow /\ ~NoEntry.present
    /\ \A v \in Version : Entry(v) \in EntryRow /\ Entry(v).present /\ Entry(v).version = v
                              /\ Entry(v).age = 0
    /\ NotAsking \in AskerRow /\ NotAsking.at = "idle"
    /\ \A e \in EntryRow : Aged(e) \in EntryRow
    /\ \A e \in EntryRow : Aged(e).present =>
           e.present /\ Aged(e).version = e.version /\ Aged(e).age = e.age + 1
  BY CacheAssumption DEF NoEntry, Entry, NotAsking, Aged, EntryRow, AskerRow, Version

\* A request that goes on, or waits.
Moved(row, place, v) == [row EXCEPT !.at = place, !.version = v, !.waited = 0]

Waited(row) == [row EXCEPT !.waited = @ + 1]

LEMMA AskerMoves ==
    ASSUME NEW row \in AskerRow
    PROVE  /\ \A place \in {"idle", "database", "fill", "fillPermissions"}, v \in Version :
                 /\ Moved(row, place, v) \in AskerRow /\ Moved(row, place, v).at = place
                 /\ Moved(row, place, v).version = v /\ Moved(row, place, v).waited = 0
           /\ row.waited < Delay =>
                 /\ Waited(row) \in AskerRow /\ Waited(row).at = row.at
                 /\ Waited(row).version = row.version /\ Waited(row).waited = row.waited + 1
<1>1. 0 \in 0..Delay /\ (row.waited < Delay => row.waited + 1 \in 0..Delay)
  BY CacheAssumption DEF AskerRow
<1> QED
  BY <1>1 DEF AskerRow, Moved, Waited

LEMMA RolesStart == RoleCacheInit => RolesInv
<1> SUFFICES ASSUME RoleCacheInit PROVE RolesInv
  OBVIOUS
<1> USE CacheAssumption DEF RoleCacheInit
<1>1. RoleCacheTypeOK
  <2>1. asker \in [Asker -> AskerRow] /\ {roleEntry, permEntry} \subseteq EntryRow
    BY RolesTyped
  <2> QED
    <3>1. superseded \in [Version -> 0..(PermissionLag + 1)]
      BY DEF PermissionLag
    <3>2. version \in Version
      BY DEF Version
    <3> QED
      BY <2>1, <3>1, <3>2 DEF RoleCacheTypeOK, AskerRow, EntryRow
<1> QED
  BY <1>1, RolesTyped DEF RolesInv, RoleChangeIsSeen

LEMMA RolesStep ==
    ASSUME RolesInv, [RoleCacheNext]_roleVars
    PROVE  RolesInv'
<1> USE CacheAssumption
<1>0. /\ asker \in [Asker -> AskerRow] /\ roleEntry \in EntryRow /\ permEntry \in EntryRow
      /\ superseded \in [Version -> 0..(PermissionLag + 1)] /\ PermissionLag \in Nat
      /\ Version \subseteq Nat
      /\ \A v \in Version : superseded[v] \in Nat
      /\ roleEntry.version \in Version /\ permEntry.version \in Version
      /\ roleEntry.age \in 0..CacheTTL /\ permEntry.age \in 0..CacheTTL
      /\ roleEntry.present \in BOOLEAN /\ permEntry.present \in BOOLEAN
      /\ version \in Version /\ deleting \in BOOLEAN /\ late \in BOOLEAN
  BY DEF RolesInv, RoleCacheTypeOK, AskerRow, EntryRow, PermissionLag, Version
<1>b. /\ roleEntry.present => superseded[roleEntry.version] <= roleEntry.age + Delay
      /\ permEntry.present => superseded[permEntry.version] <= CacheTTL + 2 * Delay + permEntry.age
      /\ \A a \in Asker : asker[a].at = "fill" => superseded[asker[a].version] <= asker[a].waited
      /\ \A a \in Asker : asker[a].at = "fillPermissions" =>
             superseded[asker[a].version] <= CacheTTL + Delay + asker[a].waited
      /\ \A v \in Version : v >= version => superseded[v] = 0
  BY DEF RolesInv
<1>a. \A a \in Asker : /\ asker[a] \in AskerRow /\ asker[a].version \in Version
                        /\ asker[a].waited \in 0..Delay
                        /\ asker[a].wants \in {"role", "permissions"}
                        /\ asker[a].at \in {"idle", "database", "fill", "fillPermissions"}
  BY <1>0 DEF AskerRow
<1>c. /\ CacheTTL \in Nat /\ Delay \in Nat /\ \A v \in Version : superseded[v] \in Nat
      /\ roleEntry.version \in Version /\ roleEntry.age \in 0..CacheTTL
      /\ \A a \in Asker : asker[a].version \in Version /\ asker[a].waited \in 0..Delay
  BY <1>0, <1>a
<1>1. ASSUME NEW a \in Asker, GetUserRole(a)
      PROVE  RolesInv'
  <2>1. [NotAsking EXCEPT !.at = "database"] \in AskerRow
    BY RolesTyped DEF AskerRow
  <2>2. asker' \in [Asker -> AskerRow]
    BY <1>0, <1>a, <1>b, <1>1, <2>1 DEF GetUserRole
  <2>3. \A b \in Asker : IF b = a THEN asker'[b].at = "database" ELSE asker'[b] = asker[b]
    BY <1>0, <1>a, <1>b, <1>1, RolesTyped DEF GetUserRole, NotAsking
  <2> QED
    BY <1>0, <1>a, <1>b, <1>1, <2>2, <2>3 DEF GetUserRole, AskerRow, RolesInv, RoleCacheTypeOK, RoleChangeIsSeen
<1>2. ASSUME NEW a \in Asker, GetUserPermissions(a)
      PROVE  RolesInv'
  <2> DEFINE asking == [at |-> IF roleEntry.present THEN "fillPermissions" ELSE "database",
                        wants |-> "permissions", version |-> roleEntry.version, waited |-> 0]
  <2>1. /\ asking \in AskerRow /\ asking.version = roleEntry.version /\ asking.waited = 0
        /\ asking.at = IF roleEntry.present THEN "fillPermissions" ELSE "database"
    BY <1>0, <1>a, <1>b DEF AskerRow, EntryRow
  <2>2. asker' = [asker EXCEPT ![a] = asking]
    BY <1>2 DEF GetUserPermissions
  <2> HIDE DEF asking
  <2>3. asker' \in [Asker -> AskerRow] /\ asker'[a] = asking
    BY <1>0, <1>a, <1>b, <2>1, <2>2
  <2>4. \A b \in Asker \ {a} : asker'[b] = asker[b]
    BY <1>0, <1>a, <1>b, <2>2
  <2>5. roleEntry.present => superseded[roleEntry.version] <= CacheTTL + Delay + 0
    BY <1>b, <1>c
  <2> QED
    BY <1>0, <1>a, <1>b, <1>2, <2>1, <2>3, <2>4, <2>5 DEF GetUserPermissions, AskerRow, RolesInv, RoleCacheTypeOK, RoleChangeIsSeen
<1>3. ASSUME NEW a \in Asker, ReadDatabase(a)
      PROVE  RolesInv'
  <2> DEFINE read == Moved(asker[a], "fill", version)
  <2>1. read \in AskerRow /\ read.at = "fill" /\ read.version = version /\ read.waited = 0
    BY <1>0, <1>a, AskerMoves
  <2>2. asker' = [asker EXCEPT ![a] = read]
    BY <1>3 DEF ReadDatabase, Go, Moved
  <2> HIDE DEF read
  <2>3. asker' \in [Asker -> AskerRow] /\ asker'[a] = read
    BY <1>0, <1>a, <1>b, <2>1, <2>2
  <2>4. \A b \in Asker \ {a} : asker'[b] = asker[b]
    BY <1>0, <1>a, <1>b, <2>2
  <2> QED
    BY <1>0, <1>a, <1>b, <1>3, <2>1, <2>3, <2>4 DEF ReadDatabase, AskerRow, RolesInv, RoleCacheTypeOK, RoleChangeIsSeen
<1>4. ASSUME NEW a \in Asker, FillRole(a)
      PROVE  RolesInv'
  <2> DEFINE filled == Moved(asker[a],
                 IF asker[a].wants = "role" THEN "idle" ELSE "fillPermissions",
                 IF asker[a].wants = "role" THEN 0 ELSE asker[a].version)
  <2>1. /\ filled \in AskerRow /\ filled.waited = 0
        /\ filled.at \in {"idle", "fillPermissions"}
        /\ filled.at = "fillPermissions" => filled.version = asker[a].version
    <3>1. 0 \in Version
      BY CacheAssumption DEF Version
    <3> QED
      BY <1>a, <3>1, AskerMoves
  <2>2. asker' = [asker EXCEPT ![a] = filled]
    BY <1>4 DEF FillRole, Go, Moved
  <2> HIDE DEF filled
  <2>3. asker' \in [Asker -> AskerRow] /\ asker'[a] = filled
    BY <1>0, <1>a, <1>b, <2>1, <2>2
  <2>4. \A b \in Asker \ {a} : asker'[b] = asker[b]
    BY <1>0, <1>a, <1>b, <2>2
  <2>5. superseded[asker[a].version] <= Delay
    BY <1>b, <1>c, <1>4 DEF FillRole
  <2>6. /\ roleEntry' \in EntryRow /\ roleEntry'.version = asker[a].version /\ roleEntry'.age = 0
        /\ asker[a].version \in Version
    BY <1>0, <1>a, <1>b, <1>4, RolesTyped DEF FillRole, AskerRow
  <2> QED
    <3>1. UNCHANGED <<version, permEntry, deleting, superseded>> /\ late' = (asker[a].version # version)
      BY <1>4 DEF FillRole
    <3>2. RoleCacheTypeOK' /\ RoleChangeIsSeen'
      BY <1>0, <2>3, <2>6, <3>1 DEF RoleCacheTypeOK, RoleChangeIsSeen, AskerRow, EntryRow
    <3>3. asker[a].at = "fill"
      BY <1>4 DEF FillRole
    <3> QED
      BY <1>b, <1>c, <2>1, <2>3, <2>4, <2>5, <2>6, <3>1, <3>2, <3>3 DEF RolesInv
<1>5. ASSUME NEW a \in Asker, FillPermissions(a)
      PROVE  RolesInv'
  <2>1. asker' \in [Asker -> AskerRow]
    BY <1>0, <1>a, <1>b, <1>5, RolesTyped DEF FillPermissions
  <2>2. \A b \in Asker : IF b = a THEN asker'[b].at = "idle" ELSE asker'[b] = asker[b]
    BY <1>0, <1>a, <1>b, <1>5, RolesTyped DEF FillPermissions
  <2>3. superseded[asker[a].version] <= CacheTTL + 2 * Delay
    BY <1>b, <1>c, <1>5 DEF FillPermissions
  <2>4. /\ permEntry' \in EntryRow /\ permEntry'.version = asker[a].version /\ permEntry'.age = 0
    BY <1>0, <1>a, <1>b, <1>5, RolesTyped DEF FillPermissions, AskerRow
  <2> QED
    BY <1>0, <1>a, <1>b, <1>5, <2>1, <2>2, <2>3, <2>4 DEF FillPermissions, AskerRow, EntryRow, RolesInv, RoleCacheTypeOK, RoleChangeIsSeen
<1>6. CASE SetUserRole
  BY <1>0, <1>a, <1>b, <1>6 DEF SetUserRole, Version, RolesInv, RoleCacheTypeOK, RoleChangeIsSeen
<1>7. ASSUME NEW done \in BOOLEAN, DeleteRoleEntry(done)
      PROVE  RolesInv'
  <2>1. roleEntry' \in EntryRow /\ (roleEntry'.present => roleEntry' = roleEntry)
    BY <1>0, <1>7, RolesTyped DEF DeleteRoleEntry
  <2>2. /\ UNCHANGED <<version, permEntry, asker, superseded>> /\ deleting' = FALSE
        /\ late' \in BOOLEAN
        /\ roleEntry'.present /\ roleEntry' = roleEntry => late'
    BY <1>7, RolesTyped DEF DeleteRoleEntry
  <2> QED
    BY <1>0, <1>b, <2>1, <2>2 DEF RolesInv, RoleCacheTypeOK, RoleChangeIsSeen, EntryRow
<1>8. CASE CacheTick
  <2>1. \A a \in Asker : IF asker[a].at = "idle" THEN asker'[a] = asker[a]
                         ELSE asker'[a] = Waited(asker[a])
    BY <1>0, <1>8 DEF CacheTick, Waited
  <2>2. \A a \in Asker : /\ asker'[a] \in AskerRow
                         /\ asker'[a].at = asker[a].at /\ asker'[a].version = asker[a].version
                         /\ asker[a].at # "idle" => asker'[a].waited = asker[a].waited + 1
    <3> TAKE a \in Asker
    <3>1. asker[a] \in AskerRow /\ (asker[a].waited < Delay \/ asker[a].at = "idle")
      BY <1>0, <1>a, <1>b, <1>8 DEF CacheTick
    <3> QED
      BY <2>1, <3>1, AskerMoves
  <2>3. asker' \in [Asker -> AskerRow]
    <3>1. asker' = [a \in Asker |-> asker'[a]]
      BY <1>8 DEF CacheTick
    <3> QED
      BY <2>2, <3>1
  <2>4. /\ roleEntry' \in EntryRow /\ permEntry' \in EntryRow
        /\ roleEntry'.present => /\ roleEntry.present /\ roleEntry'.version = roleEntry.version
                                 /\ roleEntry'.age = roleEntry.age + 1
        /\ permEntry'.present => /\ permEntry.present /\ permEntry'.version = permEntry.version
                                 /\ permEntry'.age = permEntry.age + 1
    BY <1>0, <1>a, <1>b, <1>8, RolesTyped DEF CacheTick
  <2>5. /\ superseded' \in [Version -> 0..(PermissionLag + 1)]
        /\ \A v \in Version : superseded'[v] <= superseded[v] + 1
        /\ \A v \in Version : v >= version => superseded'[v] = superseded[v]
    BY <1>0, <1>a, <1>b, <1>8 DEF CacheTick
  <2>6. UNCHANGED <<version, deleting>> /\ late' = (late /\ roleEntry'.present)
    BY <1>8 DEF CacheTick
  <2>7. RoleCacheTypeOK' /\ RoleChangeIsSeen'
    BY <2>3, <2>4, <2>5, <2>6 DEF AskerRow, EntryRow, RolesInv, RoleCacheTypeOK, RoleChangeIsSeen
  <2>8. /\ roleEntry'.present => superseded'[roleEntry'.version] <= roleEntry'.age + Delay
        /\ permEntry'.present => superseded'[permEntry'.version] <= CacheTTL + 2 * Delay + permEntry'.age
    <3>1. /\ roleEntry'.age \in Nat /\ permEntry'.age \in Nat
          /\ \A v \in Version : superseded'[v] \in Nat /\ superseded[v] \in Nat
      BY <1>c, <2>4, <2>5 DEF EntryRow, PermissionLag
    <3>2. /\ superseded'[roleEntry.version] <= superseded[roleEntry.version] + 1
          /\ superseded'[permEntry.version] <= superseded[permEntry.version] + 1
          /\ superseded'[roleEntry.version] \in Nat /\ superseded[roleEntry.version] \in Nat
          /\ superseded'[permEntry.version] \in Nat /\ superseded[permEntry.version] \in Nat
      BY <1>0, <2>5, <3>1
    <3>3. roleEntry.age \in Nat /\ permEntry.age \in Nat /\ CacheTTL \in Nat /\ Delay \in Nat
      BY <1>0
    <3>4. roleEntry'.present => superseded'[roleEntry'.version] <= roleEntry'.age + Delay
      BY <1>b, <2>4, <3>2, <3>3
    <3>5. permEntry'.present =>
              superseded'[permEntry'.version] <= CacheTTL + 2 * Delay + permEntry'.age
      BY <1>b, <2>4, <3>2, <3>3
    <3> QED
      BY <3>4, <3>5
  <2>9. \A a \in Asker :
           /\ asker'[a].at = "fill" => superseded'[asker'[a].version] <= asker'[a].waited
           /\ asker'[a].at = "fillPermissions" =>
                 superseded'[asker'[a].version] <= CacheTTL + Delay + asker'[a].waited
    <3>1. \A v \in Version : superseded'[v] \in Nat /\ superseded[v] \in Nat
      BY <1>c, <2>5 DEF PermissionLag
    <3>2. \A a \in Asker : asker[a].version \in Version /\ asker[a].waited \in Nat
      BY <1>c
    <3> QED
      BY <1>b, <1>c, <2>2, <2>5, <3>1, <3>2
  <2> QED
    BY <2>5, <2>6, <2>7, <2>8, <2>9 DEF RolesInv, RoleCacheTypeOK, RoleChangeIsSeen
<1>9. CASE UNCHANGED roleVars
  BY <1>9 DEF roleVars, RolesInv, RoleCacheTypeOK, RoleChangeIsSeen
<1> QED
  BY <1>1, <1>2, <1>3, <1>4, <1>5, <1>6, <1>7, <1>8, <1>9 DEF RoleCacheNext

LEMMA RolesGood == RolesInv => RoleCacheTypeOK /\ RoleChangeIsSeen /\ StalenessBounded
<1> SUFFICES ASSUME RolesInv PROVE StalenessBounded
  BY DEF RolesInv
<1>1. /\ roleEntry \in EntryRow /\ permEntry \in EntryRow
      /\ superseded \in [Version -> 0..(PermissionLag + 1)] /\ PermissionLag \in Nat
  BY CacheAssumption DEF RolesInv, RoleCacheTypeOK, EntryRow, PermissionLag
<1> QED
  BY <1>1, CacheAssumption DEF RolesInv, StalenessBounded, EntryRow, RoleLag, PermissionLag

-----------------------------------------------------------------------------
(* The keys that encrypt.  While no row is made in the course of a rotation, *)
(* the one rotation that is under way owns the active row, and a store that  *)
(* no rotation crosses names a row of the key in memory.                     *)

RowCount == Cardinality(Rows)

KeysInOrder ==
    /\ \A r, q \in Rotator : rotator[r].at # "idle" /\ rotator[q].at # "idle" => r = q
    /\ \A j, k \in Rows : keyRows[j].version = keyRows[k].version => j = k
    /\ \A j, k \in ActiveKeys : j = k
    /\ \A r \in Rotator : rotator[r].at = "create" => ActiveKeys = {}
    /\ \A r \in Rotator : rotator[r].at \in {"install", "retire"} =>
           /\ ActiveKeys \subseteq {rotator[r].row} /\ rotator[r].row \in Rows
           /\ keyRows[rotator[r].row].encrypts = rotator[r].row
    /\ \A r \in Rotator : rotator[r].at = "retire" => memoryKey = rotator[r].row
    /\ ~Rotating => \A k \in ActiveKeys : keyRows[k].encrypts = memoryKey
    /\ \A w \in KeyWriter : keyWriter[w].at = "encrypt" /\ keyWriter[w].apart =>
           keyRows[keyWriter[w].names].encrypts = memoryKey
    /\ \A w \in KeyWriter : keyWriter[w].at = "store" /\ keyWriter[w].apart =>
           keyRows[keyWriter[w].names].encrypts = keyWriter[w].key
    /\ resource.stored /\ resource.apart =>
           keyRows[resource.names].encrypts = resource.key

KeysInv ==
    /\ KeysTypeOK
    /\ \A k \in Rows : keyRows[k].version <= k
    /\ \A w \in KeyWriter : keyWriter[w].at \in {"encrypt", "store"} => keyWriter[w].names \in Rows
    /\ \A w \in KeyWriter : keyWriter[w].at # "idle" /\ keyWriter[w].apart => ~Rotating
    /\ resource.stored => resource.names \in Rows
    /\ overlapped \/ KeysInOrder

LEMMA KeysStart == KeysInit => KeysInv
<1> SUFFICES ASSUME KeysInit PROVE KeysInv
  OBVIOUS
<1> USE MaxKeysAssumption
<1>1. Rows = {} /\ ActiveKeys = {} /\ ~Rotating
  BY DEF KeysInit, Rows, ActiveKeys, Rotating, Resting
<1>2. 0 \in KeyId /\ keyRows \in [1..0 -> KeyRow]
  BY <1>1 DEF KeysInit, KeyId, Rows
<1>3. KeysTypeOK
  BY <1>2 DEF KeysInit, KeysTypeOK, NotWriting, Resting
<1> QED
  BY <1>1, <1>3 DEF KeysInit, KeysInv, KeysInOrder, NotWriting, Resting

LEMMA RowsCounted ==
    ASSUME KeysTypeOK
    PROVE  /\ RowCount \in 0..MaxKeys /\ Rows = 1..RowCount
           /\ keyRows \in [Rows -> KeyRow] /\ IsFiniteSet(Rows)
<1>1. PICK n \in KeyId : keyRows \in [1..n -> KeyRow]
  BY DEF KeysTypeOK
<1>2. Rows = 1..n /\ n \in 0..MaxKeys
  BY <1>1 DEF Rows, KeyId
<1>3. IsFiniteSet(1..n) /\ Cardinality(1..n) = n
  <2>1. n \in Int /\ 1 \in Int /\ (1 > n => n = 0)
    BY <1>2
  <2> QED
    BY <2>1, FS_Interval
<1> QED
  BY <1>1, <1>2, <1>3 DEF RowCount

\* Rows that change their status keep the rest.
LEMMA RowsTurn ==
    ASSUME KeysTypeOK, NEW from \in KeyStatus, NEW to \in KeyStatus, keyRows' = Turn(from, to)
    PROVE  /\ \E n \in KeyId : keyRows' \in [1..n -> KeyRow]
           /\ Rows' = Rows
           /\ \A k \in Rows : /\ keyRows'[k].version = keyRows[k].version
                              /\ keyRows'[k].encrypts = keyRows[k].encrypts
                              /\ keyRows'[k].status = IF keyRows[k].status = from THEN to
                                                      ELSE keyRows[k].status
<1>1. keyRows \in [Rows -> KeyRow] /\ Rows = 1..RowCount /\ RowCount \in KeyId
  BY RowsCounted DEF KeyId
<1>2. \A row \in KeyRow : LET turned == [row EXCEPT !.status = to]
                          IN  /\ turned \in KeyRow /\ turned.version = row.version
                              /\ turned.encrypts = row.encrypts /\ turned.status = to
  BY DEF KeyRow
<1>3. Rows' = Rows
  BY DEF Turn, Rows
<1>4. \A k \in Rows : keyRows'[k] \in KeyRow
  BY <1>1, <1>2 DEF Turn
<1>5. keyRows' \in [Rows -> KeyRow]
  BY <1>4 DEF Turn
<1>6. \A k \in Rows : keyRows'[k] = IF keyRows[k].status = from
                                     THEN [keyRows[k] EXCEPT !.status = to] ELSE keyRows[k]
  BY DEF Turn
<1>7. \A k \in Rows : keyRows[k] \in KeyRow
  BY <1>1
<1>8. \A k \in Rows : /\ keyRows'[k].version = keyRows[k].version
                       /\ keyRows'[k].encrypts = keyRows[k].encrypts
                       /\ keyRows'[k].status = IF keyRows[k].status = from THEN to
                                               ELSE keyRows[k].status
  <2> TAKE k \in Rows
  <2>1. CASE keyRows[k].status = from
    <3>1. keyRows'[k] = [keyRows[k] EXCEPT !.status = to] /\ keyRows[k] \in KeyRow
      BY <1>6, <1>7, <2>1
    <3>2. /\ keyRows'[k].version = keyRows[k].version
          /\ keyRows'[k].encrypts = keyRows[k].encrypts /\ keyRows'[k].status = to
      BY <3>1 DEF KeyRow
    <3> QED
      BY <2>1, <3>2
  <2>2. CASE keyRows[k].status # from
    BY <1>6, <2>2
  <2> QED
    BY <2>1, <2>2
<1> QED
  BY <1>1, <1>3, <1>5, <1>8

LEMMA RowsAdded ==
    ASSUME KeysTypeOK, RowCount < MaxKeys, NEW row \in KeyRow, keyRows' = Added(row)
    PROVE  /\ \E n \in KeyId : keyRows' \in [1..n -> KeyRow]
           /\ Rows' = Rows \cup {RowCount + 1} /\ RowCount + 1 \notin Rows
           /\ RowCount + 1 \in KeyId
           /\ \A k \in Rows : keyRows'[k] = keyRows[k]
           /\ keyRows'[RowCount + 1] = row
<1>1. keyRows \in [Rows -> KeyRow] /\ Rows = 1..RowCount /\ RowCount \in 0..MaxKeys
  BY RowsCounted
<1>2. RowCount + 1 \in KeyId
  BY <1>1, MaxKeysAssumption DEF KeyId
<1>3. keyRows' = [k \in 1..(RowCount + 1) |-> IF k \in Rows THEN keyRows[k] ELSE row]
  BY DEF Added, RowCount
<1>4. keyRows' \in [1..(RowCount + 1) -> KeyRow]
  BY <1>1, <1>3
<1>5. Rows' = 1..(RowCount + 1)
  BY <1>3 DEF Rows
<1>6. 1..(RowCount + 1) = Rows \cup {RowCount + 1} /\ RowCount + 1 \notin Rows
  BY <1>1
<1> QED
  BY <1>2, <1>3, <1>4, <1>5, <1>6

\* The next version is above every other, and within the number of rows.
LEMMA NextIsHighest ==
    ASSUME KeysTypeOK, \A k \in Rows : keyRows[k].version <= k
    PROVE  /\ NextVersion \in 1..(RowCount + 1)
           /\ \A k \in Rows : keyRows[k].version < NextVersion
<1> DEFINE below == {v \in 1..MaxKeys : \E k \in Rows : keyRows[k].version >= v}
<1>1. keyRows \in [Rows -> KeyRow] /\ Rows = 1..RowCount /\ RowCount \in 0..MaxKeys
  BY RowsCounted
<1>2. \A k \in Rows : keyRows[k].version \in 1..MaxKeys
  BY <1>1 DEF KeyRow
<1>3. \A n \in 0..MaxKeys : IsFiniteSet(1..n) /\ Cardinality(1..n) = n
  BY FS_Interval, MaxKeysAssumption
<1>4. below \subseteq 1..RowCount
  BY <1>1, <1>2, MaxKeysAssumption
<1>5. IsFiniteSet(below) /\ Cardinality(below) <= RowCount /\ Cardinality(below) \in Nat
  BY <1>1, <1>3, <1>4, FS_Subset, FS_CardinalityType
<1>6. ASSUME NEW k \in Rows
      PROVE  keyRows[k].version <= Cardinality(below)
  <2>1. 1..keyRows[k].version \subseteq below
    BY <1>2, MaxKeysAssumption
  <2>2. keyRows[k].version \in 0..MaxKeys
    BY <1>2
  <2>3. Cardinality(1..keyRows[k].version) <= Cardinality(below)
    BY <1>5, <2>1, FS_Subset
  <2> QED
    BY <1>3, <2>2, <2>3
<1>7. NextVersion = 1 + Cardinality(below)
  BY DEF NextVersion
<1> HIDE DEF below
<1> QED
  BY <1>1, <1>2, <1>5, <1>6, <1>7

\* What the rest of the state must look like for the rows to stay in order.
LEMMA BeginRotationKeeps ==
    ASSUME KeysInv, NEW r \in Rotator, BeginRotation(r)
    PROVE  KeysInv'
<1> USE MaxKeysAssumption
<1>1. keyRows' = Turn("active", "rotating") /\ KeysTypeOK
  BY DEF BeginRotation, KeysInv
<1>2. /\ \E n \in KeyId : keyRows' \in [1..n -> KeyRow]
      /\ Rows' = Rows
      /\ \A k \in Rows : /\ keyRows'[k].version = keyRows[k].version
                         /\ keyRows'[k].encrypts = keyRows[k].encrypts
                         /\ keyRows'[k].status = IF keyRows[k].status = "active" THEN "rotating"
                                                 ELSE keyRows[k].status
  BY <1>1, RowsTurn DEF KeyStatus
<1>3. ActiveKeys' = {}
  BY <1>2 DEF ActiveKeys
<1>4. /\ rotator' = [rotator EXCEPT ![r].at = "create"] /\ rotator[r].at = "idle"
      /\ keyWriter' = [w \in KeyWriter |-> [keyWriter[w] EXCEPT !.apart = FALSE]]
      /\ overlapped' = (\/ overlapped \/ Rotating
                        \/ \E w \in KeyWriter : keyWriter[w].at = "create")
      /\ UNCHANGED <<memoryKey, resource>>
  BY DEF BeginRotation
<1>5. /\ \A q \in Rotator \ {r} : rotator'[q] = rotator[q]
      /\ rotator'[r].at = "create"
  BY <1>1, <1>4 DEF KeysTypeOK
<1>6. \A w \in KeyWriter : /\ keyWriter'[w].at = keyWriter[w].at
                           /\ keyWriter'[w].names = keyWriter[w].names /\ ~keyWriter'[w].apart
  BY <1>1, <1>4 DEF KeysTypeOK
<1>7. KeysTypeOK'
  <2>1. keyWriter' \in [KeyWriter -> [at : {"idle", "create", "encrypt", "store"},
                                     names : KeyId, key : KeyId, apart : BOOLEAN]]
    BY <1>1, <1>4 DEF KeysTypeOK
  <2>2. rotator' \in [Rotator -> [at : {"idle", "create", "install", "retire"}, row : KeyId]]
    BY <1>1, <1>4 DEF KeysTypeOK
  <2>3. overlapped' \in BOOLEAN
    BY <1>1, <1>4 DEF KeysTypeOK
  <2> QED
    BY <1>1, <1>2, <1>4, <2>1, <2>2, <2>3 DEF KeysTypeOK
<1>8. Rotating'
  BY <1>5 DEF Rotating
<1>9. ~overlapped' => KeysInOrder'
  <2> SUFFICES ASSUME ~overlapped' PROVE KeysInOrder'
    OBVIOUS
  <2>1. ~overlapped /\ ~Rotating /\ KeysInOrder
    BY <1>4 DEF KeysInv
  <2>2. \A q \in Rotator : rotator'[q].at # "idle" => q = r
    BY <1>5, <2>1 DEF Rotating
  <2> QED
    BY <1>2, <1>3, <1>4, <1>5, <1>6, <1>8, <2>1, <2>2, SMTT(30) DEF KeysInOrder, KeysInv
<1>10. \A k \in Rows' : keyRows'[k].version <= k
  BY <1>2 DEF KeysInv
<1>11. \A w \in KeyWriter : keyWriter'[w].at \in {"encrypt", "store"} =>
          keyWriter'[w].names \in Rows'
  BY <1>2, <1>6 DEF KeysInv
<1>12. resource'.stored => resource'.names \in Rows'
  BY <1>2, <1>4 DEF KeysInv
<1> QED
  BY <1>6, <1>7, <1>9, <1>10, <1>11, <1>12 DEF KeysInv

LEMMA CreateKeyRowKeeps ==
    ASSUME KeysInv, NEW r \in Rotator, CreateKeyRow(r)
    PROVE  KeysInv'
<1> USE MaxKeysAssumption
<1> DEFINE n == RowCount + 1
           row == [status |-> "active", version |-> NextVersion, master |-> FALSE, encrypts |-> n]
<1>1. KeysTypeOK /\ \A k \in Rows : keyRows[k].version <= k
  BY DEF KeysInv
<1>2. /\ rotator[r].at = "create" /\ RowCount < MaxKeys /\ keyRows' = Added(row)
      /\ rotator' = [rotator EXCEPT ![r] = [at |-> "install", row |-> n]]
      /\ UNCHANGED <<memoryKey, keyWriter, resource, overlapped>>
  BY DEF CreateKeyRow, RowCount
<1>3. RowCount \in 0..MaxKeys /\ Rows = 1..RowCount /\ keyRows \in [Rows -> KeyRow]
  BY <1>1, RowsCounted
<1>4. NextVersion \in 1..n /\ \A k \in Rows : keyRows[k].version < NextVersion
  BY <1>1, NextIsHighest
<1>5. NextVersion \in 1..MaxKeys /\ n \in KeyId
  BY <1>2, <1>3, <1>4 DEF KeyId
<1>6. /\ row \in KeyRow /\ row.status = "active" /\ row.version = NextVersion /\ row.encrypts = n
  BY <1>5 DEF KeyRow, KeyStatus
<1> HIDE DEF row
<1>7. /\ \E m \in KeyId : keyRows' \in [1..m -> KeyRow]
      /\ Rows' = Rows \cup {n} /\ n \notin Rows
      /\ \A k \in Rows : keyRows'[k] = keyRows[k]
      /\ keyRows'[n] = row
  BY <1>1, <1>2, <1>6, RowsAdded
<1>a. n \in Nat /\ \A k \in Rows : k \in Nat /\ k # n
  BY <1>3
<1>b. \A k \in Rows : keyRows[k].version \in Nat
  BY <1>3 DEF KeyRow
<1> HIDE DEF n
<1>8. /\ rotator'[r].at = "install" /\ rotator'[r].row = n
      /\ \A q \in Rotator \ {r} : rotator'[q] = rotator[q]
  BY <1>1, <1>2 DEF KeysTypeOK
<1>9. KeysTypeOK'
  <2>1. [at |-> "install", row |-> n] \in
            [at : {"idle", "create", "install", "retire"}, row : KeyId]
    BY <1>5
  <2> QED
    BY <1>1, <1>2, <1>7, <2>1 DEF KeysTypeOK
<1>10. Rotating /\ Rotating'
  BY <1>2, <1>8 DEF Rotating
<1>11. ActiveKeys' = ActiveKeys \cup {n}
  BY <1>6, <1>7 DEF ActiveKeys
<1>12. \A k \in Rows' : keyRows'[k].version <= k
  BY <1>1, <1>4, <1>6, <1>7, <1>a
<1>13. ~overlapped' => KeysInOrder'
  <2> SUFFICES ASSUME ~overlapped' PROVE KeysInOrder'
    OBVIOUS
  <2>1. ~overlapped /\ KeysInOrder /\ ActiveKeys = {}
    BY <1>2 DEF KeysInv, KeysInOrder
  <2>2. \A q \in Rotator : rotator'[q].at # "idle" => q = r
    BY <1>2, <1>8, <2>1 DEF KeysInOrder
  <2>3. \A j, k \in Rows' : keyRows'[j].version = keyRows'[k].version => j = k
    BY <1>4, <1>6, <1>7, <1>b, <2>1 DEF KeysInOrder
  <2>4. ActiveKeys' = {n}
    BY <1>11, <2>1
  <2>5. \A w \in KeyWriter : keyWriter[w].at # "idle" => ~keyWriter[w].apart
    BY <1>10 DEF KeysInv
  <2>6. resource.stored /\ resource.apart => keyRows'[resource.names].encrypts = resource.key
    BY <1>7, <2>1 DEF KeysInv, KeysInOrder
  <2>7. \A q \in Rotator : rotator'[q].at \in {"install", "retire"} =>
           /\ ActiveKeys' \subseteq {rotator'[q].row} /\ rotator'[q].row \in Rows'
           /\ keyRows'[rotator'[q].row].encrypts = rotator'[q].row
    BY <1>6, <1>7, <1>8, <2>2, <2>4
  <2>8. \A q \in Rotator : rotator'[q].at \notin {"create", "retire"}
    BY <1>8, <2>2
  <2> QED
    BY <1>2, <1>10, <2>2, <2>3, <2>4, <2>5, <2>6, <2>7, <2>8 DEF KeysInOrder
<1> QED
  BY <1>2, <1>7, <1>9, <1>10, <1>12, <1>13 DEF KeysInv

LEMMA InstallKeyKeeps ==
    ASSUME KeysInv, NEW r \in Rotator, InstallKey(r)
    PROVE  KeysInv'
<1>1. /\ rotator[r].at = "install" /\ memoryKey' = rotator[r].row
      /\ rotator' = [rotator EXCEPT ![r].at = "retire"]
      /\ UNCHANGED <<keyRows, keyWriter, resource, overlapped>>
  BY DEF InstallKey
<1>2. KeysTypeOK
  BY DEF KeysInv
<1>3. /\ rotator'[r].at = "retire" /\ rotator'[r].row = rotator[r].row
      /\ \A q \in Rotator \ {r} : rotator'[q] = rotator[q]
      /\ rotator[r].row \in KeyId
  BY <1>1, <1>2 DEF KeysTypeOK
<1>4. KeysTypeOK'
  BY <1>1, <1>2, <1>3 DEF KeysTypeOK
<1>5. Rotating /\ Rotating' /\ Rows' = Rows /\ ActiveKeys' = ActiveKeys
  BY <1>1, <1>3 DEF Rotating, Rows, ActiveKeys
<1>6. \A w \in KeyWriter : keyWriter[w].at # "idle" => ~keyWriter[w].apart
  BY <1>5 DEF KeysInv
<1>7. ~overlapped' => KeysInOrder'
  <2> SUFFICES ASSUME ~overlapped' PROVE KeysInOrder'
    OBVIOUS
  <2>1. KeysInOrder
    BY <1>1 DEF KeysInv
  <2>2. \A q \in Rotator : rotator'[q].at # "idle" => q = r
    BY <1>1, <1>3, <2>1 DEF KeysInOrder
  <2> QED
    BY <1>1, <1>3, <1>5, <1>6, <2>1, <2>2 DEF KeysInOrder
<1> QED
  BY <1>1, <1>4, <1>5, <1>6, <1>7 DEF KeysInv

LEMMA RetireRotatingKeeps ==
    ASSUME KeysInv, NEW r \in Rotator, RetireRotating(r)
    PROVE  KeysInv'
<1>1. /\ rotator[r].at = "retire" /\ keyRows' = Turn("rotating", "retired")
      /\ rotator' = [rotator EXCEPT ![r] = Resting]
      /\ UNCHANGED <<memoryKey, keyWriter, resource, overlapped>>
  BY DEF RetireRotating
<1>2. KeysTypeOK
  BY DEF KeysInv
<1>3. /\ \E n \in KeyId : keyRows' \in [1..n -> KeyRow]
      /\ Rows' = Rows
      /\ \A k \in Rows : /\ keyRows'[k].version = keyRows[k].version
                         /\ keyRows'[k].encrypts = keyRows[k].encrypts
                         /\ keyRows'[k].status = IF keyRows[k].status = "rotating" THEN "retired"
                                                 ELSE keyRows[k].status
  BY <1>1, <1>2, RowsTurn DEF KeyStatus
<1>4. ActiveKeys' = ActiveKeys
  BY <1>3 DEF ActiveKeys
<1>5. /\ rotator'[r].at = "idle" /\ \A q \in Rotator \ {r} : rotator'[q] = rotator[q]
  BY <1>1, <1>2 DEF KeysTypeOK, Resting
<1>6. KeysTypeOK'
  BY <1>1, <1>2, <1>3, MaxKeysAssumption DEF KeysTypeOK, Resting, KeyId
<1>7. Rotating /\ (Rotating' => Rotating)
  BY <1>1, <1>5 DEF Rotating
<1>8. ~overlapped' => KeysInOrder'
  <2> SUFFICES ASSUME ~overlapped' PROVE KeysInOrder'
    OBVIOUS
  <2>1. KeysInOrder
    BY <1>1 DEF KeysInv
  <2>2. \A q \in Rotator : rotator'[q].at = "idle"
    BY <1>1, <1>5, <2>1 DEF KeysInOrder
  <2>3. \A k \in ActiveKeys' : keyRows'[k].encrypts = memoryKey
    BY <1>1, <1>3, <1>4, <2>1 DEF KeysInOrder, ActiveKeys
  <2>4. \A w \in KeyWriter : keyWriter[w].at \in {"encrypt", "store"} => keyWriter[w].names \in Rows
    BY DEF KeysInv
  <2>5. \A w \in KeyWriter :
          /\ keyWriter'[w].at = "encrypt" /\ keyWriter'[w].apart =>
                 keyRows'[keyWriter'[w].names].encrypts = memoryKey'
          /\ keyWriter'[w].at = "store" /\ keyWriter'[w].apart =>
                 keyRows'[keyWriter'[w].names].encrypts = keyWriter'[w].key
    BY <1>1, <1>3, <2>1, <2>4 DEF KeysInOrder
  <2>6. resource'.stored /\ resource'.apart => keyRows'[resource'.names].encrypts = resource'.key
    BY <1>1, <1>3, <2>1 DEF KeysInOrder, KeysInv
  <2>7. \A j, k \in Rows' : keyRows'[j].version = keyRows'[k].version => j = k
    BY <1>3, <2>1 DEF KeysInOrder
  <2>8. \A j, k \in ActiveKeys' : j = k
    BY <1>4, <2>1 DEF KeysInOrder
  <2> QED
    BY <1>1, <2>2, <2>3, <2>5, <2>6, <2>7, <2>8 DEF KeysInOrder
<1> QED
  BY <1>1, <1>3, <1>6, <1>7, <1>8 DEF KeysInv

LEMMA RotationFailsKeeps ==
    ASSUME KeysInv, NEW r \in Rotator, RotationFails(r)
    PROVE  KeysInv'
<1>1. /\ rotator[r].at \in {"create", "retire"}
      /\ rotator' = [rotator EXCEPT ![r] = Resting]
      /\ UNCHANGED <<keyRows, memoryKey, keyWriter, resource, overlapped>>
  BY DEF RotationFails
<1>2. KeysTypeOK
  BY DEF KeysInv
<1>3. /\ rotator'[r].at = "idle" /\ \A q \in Rotator \ {r} : rotator'[q] = rotator[q]
  BY <1>1, <1>2 DEF KeysTypeOK, Resting
<1>4. KeysTypeOK'
  <2>1. Resting \in [at : {"idle", "create", "install", "retire"}, row : KeyId]
    BY MaxKeysAssumption DEF Resting, KeyId
  <2>2. rotator' \in [Rotator -> [at : {"idle", "create", "install", "retire"}, row : KeyId]]
    BY <1>1, <1>2, <2>1 DEF KeysTypeOK
  <2> QED
    BY <1>1, <1>2, <2>2 DEF KeysTypeOK
<1>5. Rotating /\ (Rotating' => Rotating) /\ Rows' = Rows /\ ActiveKeys' = ActiveKeys
  BY <1>1, <1>3 DEF Rotating, Rows, ActiveKeys
<1>6. ~overlapped' => KeysInOrder'
  <2> SUFFICES ASSUME ~overlapped' PROVE KeysInOrder'
    OBVIOUS
  <2>1. KeysInOrder
    BY <1>1 DEF KeysInv
  <2>2. \A q \in Rotator : rotator'[q].at = "idle"
    BY <1>1, <1>3, <2>1 DEF KeysInOrder
  <2>3. \A k \in ActiveKeys : keyRows[k].encrypts = memoryKey
    BY <1>1, <2>1 DEF KeysInOrder
  <2> QED
    BY <1>1, <1>5, <2>1, <2>2, <2>3 DEF KeysInOrder
<1> QED
  BY <1>1, <1>4, <1>5, <1>6 DEF KeysInv

\* A store: the rows of the writers, and what it changes of the order.
WriterRow == [at : {"idle", "create", "encrypt", "store"},
              names : KeyId, key : KeyId, apart : BOOLEAN]

LEMMA FindActiveKeyKeeps ==
    ASSUME KeysInv, NEW w \in KeyWriter, FindActiveKey(w)
    PROVE  KeysInv'
<1>1. UNCHANGED <<keyRows, memoryKey, rotator, resource, overlapped>> /\ keyWriter[w].at = "idle"
  BY DEF FindActiveKey
<1>2. KeysTypeOK
  BY DEF KeysInv
<1>3. Rows' = Rows /\ ActiveKeys' = ActiveKeys /\ Rotating' = Rotating /\ Rotating \in BOOLEAN
  BY <1>1 DEF Rows, ActiveKeys, Rotating
<1>4. Rows \subseteq KeyId /\ 0 \in KeyId
  BY <1>2, RowsCounted, MaxKeysAssumption DEF KeyId
<1>5. PICK row \in WriterRow :
        /\ keyWriter' = [keyWriter EXCEPT ![w] = row]
        /\ row.apart <=> ~Rotating
        /\ \/ row.at = "encrypt" /\ row.names \in ActiveKeys
           \/ row.at = "create"
  <2>1. ASSUME NEW k \in ActiveKeys,
               keyWriter' = [keyWriter EXCEPT ![w] = [at |-> "encrypt", names |-> k, key |-> 0,
                                                      apart |-> ~Rotating]]
        PROVE  \E row \in WriterRow :
                 /\ keyWriter' = [keyWriter EXCEPT ![w] = row]
                 /\ row.apart <=> ~Rotating
                 /\ \/ row.at = "encrypt" /\ row.names \in ActiveKeys
                    \/ row.at = "create"
    <3> DEFINE row == [at |-> "encrypt", names |-> k, key |-> 0, apart |-> ~Rotating]
    <3>1. row \in WriterRow
      BY <1>3, <1>4 DEF WriterRow, ActiveKeys
    <3>2. (row.apart <=> ~Rotating) /\ row.at = "encrypt" /\ row.names = k
      BY <1>3
    <3> HIDE DEF row
    <3> QED
      BY <2>1, <3>1, <3>2 DEF row
  <2>2. ASSUME keyWriter' = [keyWriter EXCEPT ![w] = [NotWriting EXCEPT !.at = "create",
                                                                        !.apart = ~Rotating]]
        PROVE  \E row \in WriterRow :
                 /\ keyWriter' = [keyWriter EXCEPT ![w] = row]
                 /\ row.apart <=> ~Rotating
                 /\ \/ row.at = "encrypt" /\ row.names \in ActiveKeys
                    \/ row.at = "create"
    <3> DEFINE row == [NotWriting EXCEPT !.at = "create", !.apart = ~Rotating]
    <3>1. NotWriting \in WriterRow
      BY <1>4 DEF NotWriting, WriterRow
    <3>2. (row.apart <=> ~Rotating) /\ row.at = "create"
      BY <1>3, <3>1 DEF WriterRow
    <3>3. row \in WriterRow
      BY <1>3, <3>1 DEF WriterRow
    <3> HIDE DEF row
    <3> QED
      BY <2>2, <3>2, <3>3 DEF row
  <2> QED
    BY <2>1, <2>2 DEF FindActiveKey
<1>6. /\ keyWriter'[w] = row /\ \A v \in KeyWriter \ {w} : keyWriter'[v] = keyWriter[v]
  BY <1>2, <1>5 DEF KeysTypeOK
<1>7. KeysTypeOK'
  BY <1>1, <1>2, <1>5 DEF KeysTypeOK, WriterRow
<1>8. row.at = "encrypt" => row.names \in Rows
  BY <1>5 DEF ActiveKeys
<1>9. ~overlapped' => KeysInOrder'
  BY <1>1, <1>3, <1>5, <1>6 DEF KeysInv, KeysInOrder
<1> QED
  BY <1>1, <1>3, <1>5, <1>6, <1>7, <1>8, <1>9 DEF KeysInv

LEMMA CreateMasterRowKeeps ==
    ASSUME KeysInv, NEW w \in KeyWriter, CreateMasterRow(w)
    PROVE  KeysInv'
<1> USE MaxKeysAssumption
<1>1. KeysTypeOK
  BY DEF KeysInv
<1>2. UNCHANGED <<memoryKey, rotator, resource>> /\ keyWriter[w].at = "create"
  BY DEF CreateMasterRow
<1>3. CASE \E k \in Rows : keyRows[k].master
  <2>1. keyWriter' = [keyWriter EXCEPT ![w] = NotWriting] /\ UNCHANGED <<keyRows, overlapped>>
    BY <1>3 DEF CreateMasterRow
  <2>2. keyWriter'[w].at = "idle" /\ \A v \in KeyWriter \ {w} : keyWriter'[v] = keyWriter[v]
    BY <1>1, <2>1 DEF KeysTypeOK, NotWriting
  <2>3. KeysTypeOK'
    <3>1. NotWriting \in WriterRow
      BY DEF NotWriting, WriterRow, KeyId
    <3> QED
      BY <1>1, <1>2, <2>1, <3>1 DEF KeysTypeOK, WriterRow
  <2>4. Rows' = Rows /\ ActiveKeys' = ActiveKeys /\ Rotating' = Rotating
    BY <1>2, <2>1 DEF Rows, ActiveKeys, Rotating
  <2>5. ~overlapped' => KeysInOrder'
    BY <1>2, <2>1, <2>2, <2>4 DEF KeysInv, KeysInOrder
  <2> QED
    BY <1>2, <2>1, <2>2, <2>3, <2>4, <2>5 DEF KeysInv
<1>4. CASE ~\E k \in Rows : keyRows[k].master
  <2> DEFINE n == RowCount + 1
             row == [status |-> "active", version |-> 1, master |-> TRUE, encrypts |-> memoryKey]
  <2>1. /\ RowCount < MaxKeys /\ keyRows' = Added(row)
        /\ keyWriter' = [keyWriter EXCEPT ![w].at = "encrypt", ![w].names = n]
        /\ overlapped' = (overlapped \/ Rotating \/ Rows # {})
    BY <1>4 DEF CreateMasterRow, RowCount
  <2>2. row \in KeyRow /\ row.version = 1 /\ row.encrypts = memoryKey /\ row.status = "active"
    BY <1>1 DEF KeyRow, KeyStatus, KeysTypeOK
  <2> HIDE DEF row
  <2>3. /\ \E m \in KeyId : keyRows' \in [1..m -> KeyRow]
        /\ Rows' = Rows \cup {n} /\ n \notin Rows /\ n \in KeyId
        /\ \A k \in Rows : keyRows'[k] = keyRows[k]
        /\ keyRows'[n] = row
    BY <1>1, <2>1, <2>2, RowsAdded
  <2>4. n \in Nat /\ 1 <= n
    BY <1>1, RowsCounted
  <2> HIDE DEF n
  <2>5. [keyWriter[w] EXCEPT !.at = "encrypt", !.names = n] \in WriterRow
    <3>1. keyWriter[w] \in WriterRow
      BY <1>1 DEF KeysTypeOK, WriterRow
    <3> QED
      BY <2>3, <3>1 DEF WriterRow
  <2>6. keyWriter' = [keyWriter EXCEPT ![w] = [keyWriter[w] EXCEPT !.at = "encrypt", !.names = n]]
    BY <1>1, <2>1 DEF KeysTypeOK
  <2>7. /\ keyWriter'[w].at = "encrypt" /\ keyWriter'[w].names = n
        /\ keyWriter'[w].apart = keyWriter[w].apart
        /\ \A v \in KeyWriter \ {w} : keyWriter'[v] = keyWriter[v]
    BY <1>1, <2>6 DEF KeysTypeOK
  <2>8. KeysTypeOK'
    BY <1>1, <1>2, <2>1, <2>3, <2>5, <2>6 DEF KeysTypeOK, WriterRow
  <2>9. ActiveKeys' = ActiveKeys \cup {n} /\ Rotating' = Rotating
    BY <1>2, <2>2, <2>3 DEF ActiveKeys, Rotating
  <2>10. \A k \in Rows' : keyRows'[k].version <= k
    BY <2>2, <2>3, <2>4 DEF KeysInv
  <2>11. ~overlapped' => KeysInOrder'
    <3> SUFFICES ASSUME ~overlapped' PROVE KeysInOrder'
      OBVIOUS
    <3>1. ~overlapped /\ ~Rotating /\ Rows = {} /\ KeysInOrder /\ Rows' = {n}
      BY <2>1, <2>3 DEF KeysInv
    <3>2. ActiveKeys' = {n}
      BY <2>9, <3>1 DEF ActiveKeys
    <3>3. \A r \in Rotator : rotator'[r].at = "idle"
      BY <1>2, <3>1 DEF Rotating
    <3>4. \A v \in KeyWriter : keyWriter[v].at \notin {"encrypt", "store"}
      BY <3>1 DEF KeysInv
    <3>5. keyRows'[n].encrypts = memoryKey'
      BY <1>2, <2>2, <2>3
    <3>6. ~resource'.stored
      BY <1>2, <3>1 DEF KeysInv
    <3> QED
      BY <2>7, <3>1, <3>2, <3>3, <3>4, <3>5, <3>6 DEF KeysInOrder
  <2>12. /\ \A v \in KeyWriter : keyWriter'[v].at \in {"encrypt", "store"} =>
                keyWriter'[v].names \in Rows'
         /\ resource'.stored => resource'.names \in Rows'
    BY <1>2, <2>3, <2>7 DEF KeysInv
  <2>13. \A v \in KeyWriter : keyWriter'[v].at # "idle" /\ keyWriter'[v].apart => ~Rotating'
    BY <1>2, <2>7, <2>9 DEF KeysInv
  <2> QED
    BY <2>8, <2>10, <2>11, <2>12, <2>13 DEF KeysInv
<1> QED
  BY <1>3, <1>4

LEMMA StoringKeeps ==
    ASSUME KeysInv, NEW w \in KeyWriter, Encrypt(w) \/ StoreEncryptedData(w)
    PROVE  KeysInv'
<1>1. KeysTypeOK
  BY DEF KeysInv
<1>2. UNCHANGED <<keyRows, memoryKey, rotator, overlapped>>
  BY DEF Encrypt, StoreEncryptedData
<1>3. Rows' = Rows /\ ActiveKeys' = ActiveKeys /\ Rotating' = Rotating
  BY <1>2 DEF Rows, ActiveKeys, Rotating
<1>4. keyWriter[w] \in WriterRow
  BY <1>1 DEF KeysTypeOK, WriterRow
<1>5. CASE Encrypt(w)
  <2> DEFINE row == [keyWriter[w] EXCEPT !.at = "store", !.key = memoryKey]
  <2>1. keyWriter' = [keyWriter EXCEPT ![w] = row]
    BY <1>1, <1>5 DEF Encrypt, KeysTypeOK
  <2>2. /\ row \in WriterRow /\ row.at = "store" /\ row.key = memoryKey
        /\ row.names = keyWriter[w].names /\ row.apart = keyWriter[w].apart
    BY <1>1, <1>4 DEF KeysTypeOK, WriterRow
  <2> HIDE DEF row
  <2>3. keyWriter'[w] = row /\ \A v \in KeyWriter \ {w} : keyWriter'[v] = keyWriter[v]
    BY <1>1, <2>1 DEF KeysTypeOK
  <2>4. keyWriter[w].at = "encrypt" /\ UNCHANGED resource
    BY <1>5 DEF Encrypt
  <2>5. KeysTypeOK'
    BY <1>1, <1>2, <2>1, <2>2, <2>4 DEF KeysTypeOK, WriterRow
  <2>6. ~overlapped' => KeysInOrder'
    BY <1>2, <1>3, <2>2, <2>3, <2>4 DEF KeysInv, KeysInOrder
  <2> QED
    BY <1>2, <1>3, <2>2, <2>3, <2>4, <2>5, <2>6 DEF KeysInv
<1>6. CASE StoreEncryptedData(w)
  <2>1. /\ keyWriter[w].at = "store" /\ keyWriter' = [keyWriter EXCEPT ![w] = NotWriting]
        /\ resource' = [stored |-> TRUE, names |-> keyWriter[w].names, key |-> keyWriter[w].key,
                        apart |-> keyWriter[w].apart]
    BY <1>6 DEF StoreEncryptedData
  <2>2. keyWriter'[w].at = "idle" /\ \A v \in KeyWriter \ {w} : keyWriter'[v] = keyWriter[v]
    BY <1>1, <2>1 DEF KeysTypeOK, NotWriting
  <2>3. NotWriting \in WriterRow
    BY MaxKeysAssumption DEF NotWriting, WriterRow, KeyId
  <2>4. KeysTypeOK'
    BY <1>1, <1>2, <1>4, <2>1, <2>3 DEF KeysTypeOK, WriterRow
  <2>5. ~overlapped' => KeysInOrder'
    BY <1>2, <1>3, <2>1, <2>2, SMTT(30) DEF KeysInv, KeysInOrder
  <2> QED
    BY <1>2, <1>3, <2>1, <2>2, <2>4, <2>5 DEF KeysInv
<1> QED
  BY <1>5, <1>6

LEMMA KeysStep ==
    ASSUME KeysInv, [KeysNext]_keyVars
    PROVE  KeysInv'
<1>1. CASE DeleteEncryptedData
  <2>1. /\ resource' = [stored |-> FALSE, names |-> 0, key |-> 0, apart |-> TRUE]
        /\ UNCHANGED <<keyRows, memoryKey, keyWriter, rotator, overlapped>>
    BY <1>1 DEF DeleteEncryptedData
  <2>2. Rows' = Rows /\ ActiveKeys' = ActiveKeys /\ Rotating' = Rotating
    BY <2>1 DEF Rows, ActiveKeys, Rotating
  <2>3. KeysTypeOK'
    <3>1. 0 \in KeyId
      BY MaxKeysAssumption DEF KeyId
    <3> QED
      BY <2>1, <3>1 DEF KeysInv, KeysTypeOK
  <2>4. ~overlapped' => KeysInOrder'
    BY <2>1, <2>2 DEF KeysInv, KeysInOrder
  <2> QED
    BY <2>1, <2>2, <2>3, <2>4 DEF KeysInv
<1>2. CASE UNCHANGED keyVars
  BY <1>2 DEF keyVars, KeysInv, KeysTypeOK, KeysInOrder, Rows, ActiveKeys, Rotating
<1> QED
  BY <1>1, <1>2, BeginRotationKeeps, CreateKeyRowKeeps, InstallKeyKeeps, RetireRotatingKeeps,
     RotationFailsKeeps, FindActiveKeyKeeps, CreateMasterRowKeeps, StoringKeeps
     DEF KeysNext, RotateEncryptionKey

LEMMA KeysGood == KeysInv => KeysTypeOK /\ KeyRowsInOrder /\ NamesItsKey
<1> SUFFICES ASSUME KeysInv PROVE KeyRowsInOrder
  BY DEF KeysInv, KeysInOrder, NamesItsKey
<1>1. IsFiniteSet(Rows) /\ ActiveKeys \subseteq Rows
  BY RowsCounted DEF KeysInv, ActiveKeys
<1>2. IsFiniteSet(ActiveKeys) /\ Cardinality(ActiveKeys) \in Nat
  BY <1>1, FS_Subset, FS_CardinalityType
<1>3. overlapped \/ ~(Cardinality(ActiveKeys) > 1)
  BY <1>2, MoreThanOne DEF KeysInv, KeysInOrder
<1> QED
  BY <1>2, <1>3 DEF KeysInv, KeysInOrder, KeyRowsInOrder

-----------------------------------------------------------------------------
(* SSH keys.  A key that is being rotated is no default that is still there, *)
(* unless it was one when it was read or was chosen since.                   *)

RotationRow == [at : {"idle", "generate", "delete", "done"}, key : SshKey, was : BOOLEAN]

SshKeysInv ==
    /\ SshKeysTypeOK
    /\ \A a, b \in defaultKeys \cap sshKeys : a = b
    /\ defaultKeys # {} /\ ~excused.deleted /\ ~excused.chosen => defaultKeys \cap sshKeys # {}
    /\ ~excused.chosen =>
           /\ \A r \in Rotation : rotation[r].at = "generate" /\ ~rotation[r].was =>
                  rotation[r].key \notin defaultKeys
           /\ \A r \in Rotation : rotation[r].at = "delete" =>
                  rotation[r].key \notin defaultKeys \cap sshKeys

LEMMA SshKeysStart == SshKeysInit => SshKeysInv
<1> SUFFICES ASSUME SshKeysInit PROVE SshKeysInv
  OBVIOUS
<1> DEFINE first == CHOOSE k \in SshKey : TRUE
<1>1. first \in SshKey
  BY SshKeyAssumption
<1> HIDE DEF first
<1>2. rotation \in [Rotation -> [at : {"idle"}, key : {first}, was : {FALSE}]]
  BY DEF SshKeysInit, first
<1>3. /\ rotation \in [Rotation -> RotationRow] /\ \A r \in Rotation : rotation[r].at = "idle"
  BY <1>1, <1>2 DEF RotationRow
<1> QED
  BY <1>3 DEF SshKeysInit, SshKeysInv, SshKeysTypeOK, RotationRow

\* A new key is none of those that are rotated, and the only default if it is one.
LEMMA StoreKeyKeeps ==
    ASSUME SshKeysTypeOK, NEW k \in SshKey, NEW asDefault \in BOOLEAN,
           k \notin UsedKeys, StoreKey(k, asDefault)
    PROVE  /\ k \notin sshKeys /\ k \notin defaultKeys
           /\ \A r \in Rotation : rotation[r].key # k
           /\ sshKeys' \subseteq SshKey /\ defaultKeys' \subseteq SshKey
           /\ defaultKeys' \subseteq defaultKeys \cup {k}
           /\ asDefault => defaultKeys' \cap sshKeys' = {k}
           /\ ~asDefault => defaultKeys' = defaultKeys /\
                            defaultKeys' \cap sshKeys' = defaultKeys \cap sshKeys
  BY DEF UsedKeys, StoreKey, SshKeysTypeOK

LEMMA SshKeysStep ==
    ASSUME SshKeysInv, [SshKeysNext]_sshKeyVars
    PROVE  SshKeysInv'
<1>0. SshKeysTypeOK
  BY DEF SshKeysInv
<1>1. ASSUME NEW k \in SshKey, NEW asDefault \in BOOLEAN, GenerateKeyPair(k, asDefault)
      PROVE  SshKeysInv'
  <2>1. /\ k \notin sshKeys /\ k \notin defaultKeys
        /\ \A r \in Rotation : rotation[r].key # k
        /\ sshKeys' \subseteq SshKey /\ defaultKeys' \subseteq SshKey
        /\ defaultKeys' \subseteq defaultKeys \cup {k}
        /\ asDefault => defaultKeys' \cap sshKeys' = {k}
        /\ ~asDefault => defaultKeys' = defaultKeys /\
                         defaultKeys' \cap sshKeys' = defaultKeys \cap sshKeys
    BY <1>0, <1>1, StoreKeyKeeps DEF GenerateKeyPair
  <2>2. UNCHANGED <<rotation, excused>>
    BY <1>1 DEF GenerateKeyPair
  <2> QED
    BY <2>1, <2>2 DEF SshKeysInv, SshKeysTypeOK
<1>2. ASSUME NEW k \in SshKey, DeleteKey(k)
      PROVE  SshKeysInv'
  <2>1. /\ excused'.deleted = (excused.deleted \/ k \in defaultKeys)
        /\ excused'.chosen = excused.chosen /\ excused' \in [deleted : BOOLEAN, chosen : BOOLEAN]
    BY <1>0, <1>2 DEF DeleteKey, SshKeysTypeOK
  <2> QED
    BY <1>2, <2>1 DEF DeleteKey, SshKeysInv, SshKeysTypeOK
<1>3. ASSUME NEW k \in SshKey, SetDefaultKey(k)
      PROVE  SshKeysInv'
  <2>1. /\ excused'.chosen = (excused.chosen \/ BeingRotated(k))
        /\ excused'.deleted = excused.deleted /\ excused' \in [deleted : BOOLEAN, chosen : BOOLEAN]
    BY <1>0, <1>3 DEF SetDefaultKey, SshKeysTypeOK, BeingRotated
  <2>2. defaultKeys' = (defaultKeys \ sshKeys) \cup {k} /\ k \in sshKeys
        /\ UNCHANGED <<sshKeys, rotation>>
    BY <1>3 DEF SetDefaultKey
  <2>3. defaultKeys' \cap sshKeys' = {k}
    BY <2>2
  <2>4. ~excused'.chosen => \A r \in Rotation : rotation[r].at # "idle" => rotation[r].key # k
    BY <2>1 DEF BeingRotated
  <2> QED
    BY <2>1, <2>2, <2>3, <2>4 DEF SshKeysInv, SshKeysTypeOK
<1>4. ASSUME NEW r \in Rotation, NEW k \in SshKey, BeginSshRotation(r, k)
      PROVE  SshKeysInv'
  <2>1. /\ rotation'[r].at = "generate" /\ rotation'[r].key = k
        /\ rotation'[r].was <=> k \in defaultKeys
        /\ \A q \in Rotation \ {r} : rotation'[q] = rotation[q]
    BY <1>0, <1>4 DEF BeginSshRotation, SshKeysTypeOK
  <2>2. SshKeysTypeOK'
    <3>1. [at |-> "generate", key |-> k, was |-> k \in defaultKeys] \in RotationRow
      BY DEF RotationRow
    <3> QED
      BY <1>0, <1>4, <3>1 DEF BeginSshRotation, SshKeysTypeOK, RotationRow
  <2>3. UNCHANGED <<sshKeys, defaultKeys, excused>>
    BY <1>4 DEF BeginSshRotation
  <2> QED
    BY <2>1, <2>2, <2>3 DEF SshKeysInv
<1>5. ASSUME NEW r \in Rotation, NEW k \in SshKey, GenerateReplacement(r, k)
      PROVE  SshKeysInv'
  <2>1. rotation[r].was \in BOOLEAN /\ StoreKey(k, rotation[r].was) /\ k \notin UsedKeys
    BY <1>0, <1>5 DEF GenerateReplacement, GenerateAsDefault, SshKeysTypeOK
  <2>2. /\ k \notin sshKeys /\ k \notin defaultKeys
        /\ \A q \in Rotation : rotation[q].key # k
        /\ sshKeys' \subseteq SshKey /\ defaultKeys' \subseteq SshKey
        /\ defaultKeys' \subseteq defaultKeys \cup {k}
        /\ rotation[r].was => defaultKeys' \cap sshKeys' = {k}
        /\ ~rotation[r].was => defaultKeys' = defaultKeys /\
                               defaultKeys' \cap sshKeys' = defaultKeys \cap sshKeys
    BY <1>0, <2>1, StoreKeyKeeps
  <2>3. /\ rotation'[r].at = "delete" /\ rotation'[r].key = rotation[r].key
        /\ \A q \in Rotation \ {r} : rotation'[q] = rotation[q]
        /\ rotation[r].at = "generate" /\ UNCHANGED excused
    BY <1>0, <1>5 DEF GenerateReplacement, GenerateAsDefault, SshKeysTypeOK
  <2>4. SshKeysTypeOK'
    BY <1>0, <1>5, <2>2 DEF GenerateReplacement, GenerateAsDefault, SshKeysTypeOK
  <2> QED
    BY <2>2, <2>3, <2>4 DEF SshKeysInv
<1>6. ASSUME NEW r \in Rotation, DeleteRotated(r)
      PROVE  SshKeysInv'
  <2>1. /\ rotation'[r].at = "done" /\ rotation[r].at = "delete"
        /\ \A q \in Rotation \ {r} : rotation'[q] = rotation[q]
    BY <1>0, <1>6 DEF DeleteRotated, SshKeysTypeOK
  <2>2. SshKeysTypeOK'
    BY <1>0, <1>6 DEF DeleteRotated, SshKeysTypeOK
  <2>3. sshKeys' = sshKeys \ {rotation[r].key} /\ UNCHANGED <<defaultKeys, excused>>
    BY <1>6 DEF DeleteRotated
  <2> QED
    BY <2>1, <2>2, <2>3 DEF SshKeysInv
<1>7. CASE UNCHANGED sshKeyVars
  BY <1>7 DEF sshKeyVars, SshKeysInv, SshKeysTypeOK
<1> QED
  BY <1>1, <1>2, <1>3, <1>4, <1>5, <1>6, <1>7 DEF SshKeysNext

LEMMA SshKeysGood == SshKeysInv => SshKeysTypeOK /\ OneDefaultKey
<1> SUFFICES ASSUME SshKeysInv PROVE Cardinality(defaultKeys \cap sshKeys) <= 1
  BY DEF SshKeysInv, OneDefaultKey
<1>1. CASE defaultKeys \cap sshKeys = {}
  BY <1>1, FS_EmptySet
<1>2. CASE defaultKeys \cap sshKeys # {}
  <2>1. PICK k \in defaultKeys \cap sshKeys : defaultKeys \cap sshKeys = {k}
    BY <1>2 DEF SshKeysInv
  <2>2. Cardinality({k}) = 1
    BY FS_Singleton
  <2> QED
    BY <2>1, <2>2
<1> QED
  BY <1>1, <1>2

-----------------------------------------------------------------------------
(* SSH connections.  An identifier that was not registered twice is in the   *)
(* list once while it is in the map, and until the one call that took it out *)
(* of the map has taken it out of the list.                                  *)

Listed(c) == Places(c) # {}

Untracking(p, c) == sshCall[p].at = "untrack" /\ c \in sshCall[p].todo

SshCallRow == [at : {"idle", "store", "untrack", "clean", "sweep"}, todo : SUBSET Connection]

LocksInv ==
    /\ \A p \in SshCaller : sshCall[p].at = "store" <=> envMuHolder = p
    /\ \A p \in SshCaller : sshCall[p].at = "sweep" <=> muHolder = p
    /\ \A p \in SshCaller : sshCall[p].at \in {"store", "untrack"} =>
           \E c \in Connection : sshCall[p].todo = {c}
    /\ \A p \in SshCaller : sshCall[p].at = "sweep" => sshCall[p].todo \subseteq stale
    /\ Tracked <= MaxConnectionsPerEnv
    /\ \A p \in SshCaller : sshCall[p].at = "store" => Tracked < MaxConnectionsPerEnv

ListedInv(c) ==
    /\ \A i, j \in Places(c) : i = j
    /\ c \in connections => Listed(c)
    /\ Listed(c) => c \in connections \/ \E p \in SshCaller : Untracking(p, c)
    /\ \A p \in SshCaller : Untracking(p, c) => Listed(c) /\ c \notin connections
    /\ \A p, q \in SshCaller : Untracking(p, c) /\ Untracking(q, c) => p = q

SshConnectionsInv ==
    /\ SshConnectionsTypeOK
    /\ LocksInv
    /\ \A c \in Connection : c \in repeated \/ ListedInv(c)

LEMMA SshConnectionsStart == SshConnectionsInit => SshConnectionsInv
<1> SUFFICES ASSUME SshConnectionsInit PROVE SshConnectionsInv
  OBVIOUS
<1>1. /\ \A c \in Connection : Places(c) = {}
      /\ \A p \in SshCaller : sshCall[p].at = "idle"
      /\ Tracked = 0 /\ envConnections \in Seq(Connection)
      /\ sshCall \in [SshCaller -> SshCallRow]
  BY DEF SshConnectionsInit, Places, IdleCall, Tracked, SshCallRow
<1> QED
  BY <1>1, SshCallAssumption
     DEF SshConnectionsInit, SshConnectionsInv, SshConnectionsTypeOK, LocksInv, ListedInv,
         Listed, Untracking, SshCallRow

\* One more identifier at the end of the list.
LEMMA AppendsOne ==
    ASSUME NEW c \in Connection, envConnections \in Seq(Connection),
           envConnections' = Append(envConnections, c)
    PROVE  /\ envConnections' \in Seq(Connection) /\ Tracked' = Tracked + 1
           /\ \A d \in Connection \ {c} : Places(d)' = Places(d)
           /\ Places(c)' = Places(c) \cup {Tracked + 1}
<1>1. /\ envConnections' \in Seq(Connection) /\ Tracked' = Tracked + 1 /\ Tracked \in Nat
      /\ \A i \in 1..Tracked : envConnections'[i] = envConnections[i]
      /\ envConnections'[Tracked + 1] = c
      /\ DOMAIN envConnections = 1..Tracked /\ DOMAIN envConnections' = 1..(Tracked + 1)
  BY DEF Tracked
<1> QED
  BY <1>1 DEF Places

\* The list without the first place of an identifier: the others keep theirs.
LEMMA UntracksOne ==
    ASSUME NEW c \in Connection, envConnections \in Seq(Connection),
           envConnections' = Untrack(c)
    PROVE  /\ envConnections' \in Seq(Connection) /\ Tracked' \in Nat /\ Tracked' <= Tracked
           /\ \A d \in Connection \ {c} :
                 /\ Places(d) # {} <=> Places(d)' # {}
                 /\ (\A i, j \in Places(d) : i = j) => \A i, j \in Places(d)' : i = j
           /\ (\A i, j \in Places(c) : i = j) => Places(c)' = {}
<1>0. /\ Tracked \in Nat /\ DOMAIN envConnections = 1..Tracked
      /\ \A i \in 1..Tracked : envConnections[i] \in Connection
  BY DEF Tracked
<1>1. CASE Places(c) = {}
  BY <1>0, <1>1 DEF Untrack, Places, Tracked
<1>2. CASE Places(c) # {}
  <2> DEFINE first == CHOOSE i \in Places(c) : \A j \in Places(c) : i <= j
  <2>1. Places(c) \subseteq Nat
    BY <1>0 DEF Places
  <2>2. first \in Places(c) /\ \A j \in Places(c) : first <= j
    BY <1>2, <2>1, Least
  <2>3. envConnections' = [i \in 1..(Tracked - 1) |->
                               envConnections[IF i < first THEN i ELSE i + 1]]
    BY <1>2 DEF Untrack
  <2> HIDE DEF first
  <2>4. first \in 1..Tracked /\ envConnections[first] = c
    BY <1>0, <2>2 DEF Places
  <2>5. Tracked - 1 \in Nat
    BY <1>0, <2>4
  <2>6. /\ \A i \in 1..(Tracked - 1) : envConnections'[i] =
                envConnections[IF i < first THEN i ELSE i + 1]
        /\ DOMAIN envConnections' = 1..(Tracked - 1)
    BY <2>3
  <2>7. \A i \in 1..(Tracked - 1) : envConnections'[i] \in Connection
    BY <1>0, <2>4, <2>6
  <2>8. envConnections' \in Seq(Connection) /\ Tracked' = Tracked - 1
    <3>1. envConnections' = [i \in 1..(Tracked - 1) |-> envConnections'[i]]
      BY <2>3
    <3> QED
      BY <2>5, <2>7, <3>1 DEF Tracked
  <2>9. \A d \in Connection, i \in 1..(Tracked - 1) :
           i \in Places(d)' <=> (IF i < first THEN i ELSE i + 1) \in Places(d)
    BY <1>0, <2>4, <2>6 DEF Places
  <2>10. \A d \in Connection : Places(d)' \subseteq 1..(Tracked - 1) /\ Places(d) \subseteq 1..Tracked
    BY <1>0, <2>6 DEF Places
  <2>11. ASSUME NEW d \in Connection \ {c}, NEW i \in Places(d)
         PROVE  Places(d)' # {}
    <3>1. i # first /\ i \in 1..Tracked
      BY <2>4, <2>10 DEF Places
    <3>2. CASE i < first
      <4>1. i \in 1..(Tracked - 1)
        BY <1>0, <2>4, <3>1, <3>2
      <4> QED
        BY <2>9, <3>2, <4>1
    <3>3. CASE first < i
      <4>1. i - 1 \in 1..(Tracked - 1) /\ ~(i - 1 < first) /\ (i - 1) + 1 = i
        BY <1>0, <2>4, <3>1, <3>3
      <4> QED
        BY <2>9, <4>1
    <3> QED
      BY <2>4, <3>1, <3>2, <3>3
  <2>12. ASSUME NEW d \in Connection \ {c}, Places(d)' # {}
         PROVE  Places(d) # {}
    BY <2>9, <2>10, <2>12
  <2>13. ASSUME NEW d \in Connection, \A i, j \in Places(d) : i = j,
                NEW i \in Places(d)', NEW j \in Places(d)'
         PROVE  i = j
    <3>1. i \in 1..(Tracked - 1) /\ j \in 1..(Tracked - 1)
      BY <2>10
    <3>2. (IF i < first THEN i ELSE i + 1) = (IF j < first THEN j ELSE j + 1)
      BY <2>9, <2>13, <3>1
    <3> QED
      BY <2>4, <3>1, <3>2
  <2>14. ASSUME \A i, j \in Places(c) : i = j, NEW i \in Places(c)'
         PROVE  FALSE
    <3>1. i \in 1..(Tracked - 1)
      BY <2>10
    <3>2. (IF i < first THEN i ELSE i + 1) = first
      BY <2>2, <2>9, <2>14, <3>1
    <3> QED
      BY <2>4, <3>1, <3>2
  <2> QED
    BY <1>0, <2>5, <2>8, <2>11, <2>12, <2>13, <2>14
<1> QED
  BY <1>1, <1>2

\* What a call that leaves the lists alone may do.
LEMMA RegisterStep ==
    ASSUME SshConnectionsInv, NEW p \in SshCaller, NEW c \in Connection, RegisterConnection(p, c)
    PROVE  SshConnectionsInv'
<1>1. SshConnectionsTypeOK /\ LocksInv
  BY DEF SshConnectionsInv
<1>2. /\ sshCall[p].at = "idle" /\ sshCalls < MaxSshCalls /\ sshCalls' = sshCalls + 1
      /\ envMuHolder = NoCaller /\ Tracked < MaxConnectionsPerEnv /\ envMuHolder' = p
      /\ sshCall' = [sshCall EXCEPT ![p] = [at |-> "store", todo |-> {c}]]
      /\ UNCHANGED <<connections, stale, envConnections, muHolder, repeated>>
  BY DEF RegisterConnection, BeginSshCall, Goto
<1>3. /\ sshCall'[p].at = "store" /\ sshCall'[p].todo = {c}
      /\ \A q \in SshCaller \ {p} : sshCall'[q] = sshCall[q]
  BY <1>1, <1>2 DEF SshConnectionsTypeOK
<1>4. Tracked' = Tracked /\ \A d : Places(d)' = Places(d)
  BY <1>2 DEF Tracked, Places
<1>5. SshConnectionsTypeOK'
  BY <1>1, <1>2, SshCallAssumption DEF SshConnectionsTypeOK
<1>6. LocksInv'
  BY <1>1, <1>2, <1>3, <1>4, SshCallAssumption DEF LocksInv, SshConnectionsTypeOK
<1>7. \A d \in Connection : d \in repeated' \/ ListedInv(d)'
  BY <1>2, <1>3, <1>4 DEF SshConnectionsInv, ListedInv, Listed, Untracking
<1> QED
  BY <1>5, <1>6, <1>7 DEF SshConnectionsInv

LEMMA StoreStep ==
    ASSUME SshConnectionsInv, NEW p \in SshCaller, StoreConnection(p)
    PROVE  SshConnectionsInv'
<1>1. SshConnectionsTypeOK /\ LocksInv
  BY DEF SshConnectionsInv
<1>2. PICK c \in sshCall[p].todo :
           /\ connections' = connections \cup {c}
           /\ stale' = stale \ {c}
           /\ envConnections' = Append(envConnections, c)
           /\ repeated' = IF Places(c) # {} THEN repeated \cup {c} ELSE repeated
  BY DEF StoreConnection
<1>3. /\ sshCall[p].at = "store" /\ muHolder = NoCaller /\ envMuHolder' = NoCaller
      /\ sshCall' = [sshCall EXCEPT ![p] = [at |-> "idle", todo |-> {}]]
      /\ UNCHANGED <<muHolder, sshCalls>>
  BY DEF StoreConnection, Goto
<1>4. c \in Connection /\ envConnections \in Seq(Connection)
  BY <1>1, <1>2 DEF SshConnectionsTypeOK
<1>5. /\ envConnections' \in Seq(Connection) /\ Tracked' = Tracked + 1
      /\ \A d \in Connection \ {c} : Places(d)' = Places(d)
      /\ Places(c)' = Places(c) \cup {Tracked + 1}
  BY <1>2, <1>4, AppendsOne
<1>6. /\ sshCall'[p].at = "idle" /\ sshCall'[p].todo = {}
      /\ \A q \in SshCaller \ {p} : sshCall'[q] = sshCall[q]
  BY <1>1, <1>3 DEF SshConnectionsTypeOK
<1>7. SshConnectionsTypeOK'
  BY <1>1, <1>2, <1>3, <1>4, <1>5 DEF SshConnectionsTypeOK
<1>8. \A q \in SshCaller : sshCall'[q].at # "store"
  BY <1>1, <1>3, <1>6 DEF LocksInv
<1>9. \A q \in SshCaller : sshCall[q].at # "sweep" /\ sshCall'[q].at # "sweep"
  BY <1>1, <1>3, <1>6, SshCallAssumption DEF LocksInv
<1>10. Tracked' <= MaxConnectionsPerEnv
  <2>1. Tracked \in Nat /\ Tracked < MaxConnectionsPerEnv
    BY <1>1, <1>3, <1>4 DEF LocksInv, Tracked
  <2> QED
    BY <1>5, <2>1, SshCallAssumption
<1>11. LocksInv'
  BY <1>1, <1>3, <1>6, <1>8, <1>9, <1>10, SshCallAssumption DEF LocksInv
<1>12. \A d \in Connection : d \in repeated' \/ ListedInv(d)'
  <2>1. \A q \in SshCaller, d \in Connection : Untracking(q, d)' <=> Untracking(q, d)
    BY <1>3, <1>6 DEF Untracking
  <2>2. ASSUME NEW d \in Connection, d # c, d \notin repeated'
        PROVE  ListedInv(d)'
    <3>1. Places(d)' = Places(d) /\ (d \in connections' <=> d \in connections) /\ d \notin repeated
      BY <1>2, <1>5, <2>2
    <3> QED
      BY <2>1, <3>1 DEF SshConnectionsInv, ListedInv, Listed
  <2>3. ASSUME c \notin repeated'
        PROVE  ListedInv(c)'
    <3>1. Places(c) = {} /\ c \notin repeated /\ Places(c)' = {Tracked + 1} /\ c \in connections'
      BY <1>2, <1>5, <2>3
    <3>2. \A q \in SshCaller : ~Untracking(q, c)
      BY <1>4, <3>1 DEF SshConnectionsInv, ListedInv, Listed
    <3> QED
      BY <1>4, <2>1, <3>1, <3>2 DEF ListedInv, Listed
  <2> QED
    BY <2>2, <2>3
<1> QED
  BY <1>7, <1>11, <1>12 DEF SshConnectionsInv

LEMMA UnregisterStep ==
    ASSUME SshConnectionsInv, NEW p \in SshCaller, NEW c \in Connection, UnregisterConnection(p, c)
    PROVE  SshConnectionsInv'
<1>1. SshConnectionsTypeOK /\ LocksInv
  BY DEF SshConnectionsInv
<1>2. /\ sshCall[p].at = "idle" /\ sshCalls < MaxSshCalls /\ sshCalls' = sshCalls + 1
      /\ muHolder = NoCaller /\ c \in connections
      /\ connections' = connections \ {c} /\ stale' = stale \ {c}
      /\ sshCall' = [sshCall EXCEPT ![p] = [at |-> "untrack", todo |-> {c}]]
      /\ UNCHANGED <<envConnections, muHolder, envMuHolder, repeated>>
  BY DEF UnregisterConnection, BeginSshCall, Goto
<1>3. /\ sshCall'[p].at = "untrack" /\ sshCall'[p].todo = {c}
      /\ \A q \in SshCaller \ {p} : sshCall'[q] = sshCall[q]
  BY <1>1, <1>2 DEF SshConnectionsTypeOK
<1>4. Tracked' = Tracked /\ \A d : Places(d)' = Places(d)
  BY <1>2 DEF Tracked, Places
<1>5. SshConnectionsTypeOK'
  BY <1>1, <1>2, SshCallAssumption DEF SshConnectionsTypeOK
<1>6. \A q \in SshCaller : sshCall[q].at # "sweep" /\ sshCall'[q].at # "sweep"
  BY <1>1, <1>2, <1>3, SshCallAssumption DEF LocksInv
<1>7. LocksInv'
  BY <1>1, <1>2, <1>3, <1>4, <1>6, SshCallAssumption DEF LocksInv, SshConnectionsTypeOK
<1>8. \A d \in Connection : d \in repeated' \/ ListedInv(d)'
  <2>1. \A d \in Connection : Untracking(p, d)' <=> d = c
    BY <1>3 DEF Untracking
  <2>2. \A q \in SshCaller \ {p}, d \in Connection : Untracking(q, d)' <=> Untracking(q, d)
    BY <1>3 DEF Untracking
  <2>3. \A d \in Connection : ~Untracking(p, d)
    BY <1>2 DEF Untracking
  <2>4. ASSUME NEW d \in Connection, d # c, d \notin repeated'
        PROVE  ListedInv(d)'
    <3>1. Places(d)' = Places(d) /\ (d \in connections' <=> d \in connections) /\ d \notin repeated
      BY <1>2, <1>4, <2>4
    <3>2. \A q \in SshCaller : Untracking(q, d)' <=> Untracking(q, d)
      BY <2>1, <2>2, <2>3, <2>4
    <3> QED
      BY <3>1, <3>2 DEF SshConnectionsInv, ListedInv, Listed
  <2>5. ASSUME c \notin repeated'
        PROVE  ListedInv(c)'
    <3>1. ListedInv(c) /\ c \in connections /\ c \notin connections' /\ Places(c)' = Places(c)
      BY <1>2, <1>4, <2>5 DEF SshConnectionsInv
    <3>2. \A q \in SshCaller : ~Untracking(q, c)
      BY <3>1 DEF ListedInv
    <3>3. \A q \in SshCaller : Untracking(q, c)' <=> q = p
      BY <2>1, <2>2, <3>2
    <3> QED
      BY <3>1, <3>3 DEF ListedInv, Listed
  <2> QED
    BY <2>4, <2>5
<1> QED
  BY <1>5, <1>7, <1>8 DEF SshConnectionsInv

LEMMA UntrackStep ==
    ASSUME SshConnectionsInv, NEW p \in SshCaller, UntrackConnection(p)
    PROVE  SshConnectionsInv'
<1>1. SshConnectionsTypeOK /\ LocksInv
  BY DEF SshConnectionsInv
<1>2. PICK c \in sshCall[p].todo : envConnections' = Untrack(c)
  BY DEF UntrackConnection
<1>3. /\ sshCall[p].at = "untrack" /\ envMuHolder = NoCaller
      /\ sshCall' = [sshCall EXCEPT ![p] = [at |-> "idle", todo |-> {}]]
      /\ UNCHANGED <<connections, stale, muHolder, envMuHolder, sshCalls, repeated>>
  BY DEF UntrackConnection, Goto
<1>4. c \in Connection /\ envConnections \in Seq(Connection) /\ sshCall[p].todo = {c}
  BY <1>1, <1>2, <1>3 DEF SshConnectionsTypeOK, LocksInv
<1>5. /\ envConnections' \in Seq(Connection) /\ Tracked' \in Nat /\ Tracked' <= Tracked
      /\ \A d \in Connection \ {c} :
            /\ Places(d) # {} <=> Places(d)' # {}
            /\ (\A i, j \in Places(d) : i = j) => \A i, j \in Places(d)' : i = j
      /\ (\A i, j \in Places(c) : i = j) => Places(c)' = {}
  BY <1>2, <1>4, UntracksOne
<1>6. /\ sshCall'[p].at = "idle" /\ sshCall'[p].todo = {}
      /\ \A q \in SshCaller \ {p} : sshCall'[q] = sshCall[q]
  BY <1>1, <1>3 DEF SshConnectionsTypeOK
<1>7. SshConnectionsTypeOK'
  BY <1>1, <1>3, <1>5 DEF SshConnectionsTypeOK
<1>8. Tracked' <= MaxConnectionsPerEnv
  <2>1. Tracked \in Nat /\ Tracked <= MaxConnectionsPerEnv
    BY <1>1, <1>4 DEF LocksInv, Tracked
  <2> QED
    BY <1>5, <2>1, SshCallAssumption
<1>9. \A q \in SshCaller : sshCall'[q].at # "store"
  BY <1>1, <1>3, <1>6, SshCallAssumption DEF LocksInv
<1>10. LocksInv'
  BY <1>1, <1>3, <1>6, <1>8, <1>9, SshCallAssumption DEF LocksInv
<1>11. \A d \in Connection : d \in repeated' \/ ListedInv(d)'
  <2>1. \A d \in Connection : ~Untracking(p, d)' /\ (Untracking(p, d) <=> d = c)
    BY <1>3, <1>4, <1>6 DEF Untracking
  <2>2. \A q \in SshCaller \ {p}, d \in Connection : Untracking(q, d)' <=> Untracking(q, d)
    BY <1>6 DEF Untracking
  <2>3. ASSUME NEW d \in Connection, d # c, d \notin repeated'
        PROVE  ListedInv(d)'
    <3>1. ListedInv(d) /\ (d \in connections' <=> d \in connections)
      BY <1>3, <2>3 DEF SshConnectionsInv
    <3>2. \A q \in SshCaller : Untracking(q, d)' <=> Untracking(q, d)
      BY <2>1, <2>2, <2>3
    <3>3. /\ Places(d) # {} <=> Places(d)' # {}
          /\ (\A i, j \in Places(d) : i = j) => \A i, j \in Places(d)' : i = j
      BY <1>5, <2>3
    <3> QED
      BY <3>1, <3>2, <3>3 DEF ListedInv, Listed
  <2>4. ASSUME c \notin repeated'
        PROVE  ListedInv(c)'
    <3>1. ListedInv(c) /\ Untracking(p, c)
      BY <1>3, <1>4, <2>1, <2>4 DEF SshConnectionsInv
    <3>2. c \notin connections' /\ \A q \in SshCaller : Untracking(q, c) => q = p
      BY <1>3, <3>1 DEF ListedInv
    <3>3. Places(c)' = {}
      BY <1>5, <3>1 DEF ListedInv
    <3>4. \A q \in SshCaller : ~Untracking(q, c)'
      BY <1>4, <2>1, <2>2, <3>2
    <3> QED
      BY <3>2, <3>3, <3>4 DEF ListedInv, Listed
  <2> QED
    BY <2>3, <2>4
<1> QED
  BY <1>7, <1>10, <1>11 DEF SshConnectionsInv

LEMMA SweepStep ==
    ASSUME SshConnectionsInv, NEW p \in SshCaller, SweepStale(p)
    PROVE  SshConnectionsInv'
<1>1. SshConnectionsTypeOK /\ LocksInv
  BY DEF SshConnectionsInv
<1>2. PICK c \in sshCall[p].todo :
           LET rest == sshCall[p].todo \ {c}
           IN  /\ connections' = connections \ {c} /\ stale' = stale \ {c}
               /\ envConnections' = Untrack(c)
               /\ muHolder' = IF rest = {} THEN NoCaller ELSE muHolder
               /\ Goto(p, IF rest = {} THEN "idle" ELSE "sweep", rest)
  BY DEF SweepStale
<1> DEFINE rest == sshCall[p].todo \ {c}
<1>3. /\ sshCall[p].at = "sweep" /\ envMuHolder = NoCaller
      /\ connections' = connections \ {c} /\ stale' = stale \ {c}
      /\ envConnections' = Untrack(c)
      /\ muHolder' = (IF rest = {} THEN NoCaller ELSE muHolder)
      /\ sshCall' = [sshCall EXCEPT ![p] = [at |-> IF rest = {} THEN "idle" ELSE "sweep",
                                            todo |-> rest]]
      /\ UNCHANGED <<envMuHolder, sshCalls, repeated>>
  BY <1>2 DEF SweepStale, Goto
<1>4. c \in Connection /\ c \in connections /\ envConnections \in Seq(Connection)
  BY <1>1, <1>2, <1>3 DEF SshConnectionsTypeOK, LocksInv
<1>5. /\ envConnections' \in Seq(Connection) /\ Tracked' \in Nat /\ Tracked' <= Tracked
      /\ \A d \in Connection \ {c} :
            /\ Places(d) # {} <=> Places(d)' # {}
            /\ (\A i, j \in Places(d) : i = j) => \A i, j \in Places(d)' : i = j
      /\ (\A i, j \in Places(c) : i = j) => Places(c)' = {}
  BY <1>3, <1>4, UntracksOne
<1>r. rest \subseteq Connection /\ rest \subseteq stale \ {c}
  BY <1>1, <1>3 DEF SshConnectionsTypeOK, LocksInv
<1> HIDE DEF rest
<1>6. /\ sshCall'[p].at = (IF rest = {} THEN "idle" ELSE "sweep") /\ sshCall'[p].todo = rest
      /\ \A q \in SshCaller \ {p} : sshCall'[q] = sshCall[q]
  BY <1>1, <1>3 DEF SshConnectionsTypeOK
<1>7. SshConnectionsTypeOK'
  <2>1. sshCall' \in [SshCaller -> SshCallRow]
    BY <1>1, <1>3, <1>r DEF SshConnectionsTypeOK, SshCallRow
  <2> QED
    BY <1>1, <1>3, <1>5, <2>1 DEF SshConnectionsTypeOK, SshCallRow
<1>8. Tracked' <= MaxConnectionsPerEnv
  <2>1. Tracked \in Nat /\ Tracked <= MaxConnectionsPerEnv
    BY <1>1, <1>4 DEF LocksInv, Tracked
  <2> QED
    BY <1>5, <2>1, SshCallAssumption
<1>9. \A q \in SshCaller : sshCall'[q].at # "store"
  BY <1>1, <1>3, <1>6, SshCallAssumption DEF LocksInv
<1>a. muHolder = p /\ \A q \in SshCaller \ {p} : sshCall'[q].at # "sweep"
  BY <1>1, <1>3, <1>6 DEF LocksInv
<1>b. \A q \in SshCaller : sshCall'[q].at = "sweep" <=> muHolder' = q
  BY <1>3, <1>6, <1>a, SshCallAssumption
<1>c. \A q \in SshCaller : sshCall'[q].at = "untrack" => \E d \in Connection : sshCall'[q].todo = {d}
  BY <1>1, <1>6 DEF LocksInv
<1>10. LocksInv'
  BY <1>3, <1>6, <1>8, <1>9, <1>a, <1>b, <1>c, <1>r, SshCallAssumption DEF LocksInv
<1>11. \A d \in Connection : d \in repeated' \/ ListedInv(d)'
  <2>1. \A q \in SshCaller, d \in Connection : Untracking(q, d)' <=> Untracking(q, d)
    BY <1>3, <1>6 DEF Untracking
  <2>2. ASSUME NEW d \in Connection, d # c, d \notin repeated'
        PROVE  ListedInv(d)'
    <3>1. ListedInv(d) /\ (d \in connections' <=> d \in connections)
      BY <1>3, <2>2 DEF SshConnectionsInv
    <3>2. /\ Places(d) # {} <=> Places(d)' # {}
          /\ (\A i, j \in Places(d) : i = j) => \A i, j \in Places(d)' : i = j
      BY <1>5, <2>2
    <3> QED
      BY <2>1, <3>1, <3>2 DEF ListedInv, Listed
  <2>3. ASSUME c \notin repeated'
        PROVE  ListedInv(c)'
    <3>1. ListedInv(c)
      BY <1>3, <1>4, <2>3 DEF SshConnectionsInv
    <3>2. c \notin connections' /\ Places(c)' = {} /\ \A q \in SshCaller : ~Untracking(q, c)
      BY <1>3, <1>4, <1>5, <3>1 DEF ListedInv
    <3> QED
      BY <1>4, <2>1, <3>2 DEF ListedInv, Listed
  <2> QED
    BY <2>2, <2>3
<1> QED
  BY <1>7, <1>10, <1>11 DEF SshConnectionsInv

LEMMA SshConnectionsStep ==
    ASSUME SshConnectionsInv, [SshConnectionsNext]_sshVars
    PROVE  SshConnectionsInv'
<1>0. SshConnectionsTypeOK /\ LocksInv
  BY DEF SshConnectionsInv
<1>1. ASSUME NEW p \in SshCaller, BeginCleanup(p)
      PROVE  SshConnectionsInv'
  <2>1. /\ sshCall[p].at = "idle" /\ sshCalls < MaxSshCalls /\ sshCalls' = sshCalls + 1
        /\ muHolder = NoCaller /\ muHolder' = p
        /\ sshCall' = [sshCall EXCEPT ![p] = [at |-> "sweep", todo |-> stale]]
        /\ UNCHANGED <<connections, stale, envConnections, envMuHolder, repeated>>
    BY <1>1 DEF BeginCleanup, BeginSshCall, Goto
  <2>2. /\ sshCall'[p].at = "sweep" /\ sshCall'[p].todo = stale
        /\ \A q \in SshCaller \ {p} : sshCall'[q] = sshCall[q]
    BY <1>0, <2>1 DEF SshConnectionsTypeOK
  <2>3. Tracked' = Tracked /\ \A d : Places(d)' = Places(d)
    BY <2>1 DEF Tracked, Places
  <2>4. SshConnectionsTypeOK'
    BY <1>0, <2>1, SshCallAssumption DEF SshConnectionsTypeOK
  <2>5. LocksInv'
    BY <1>0, <2>1, <2>2, <2>3, SshCallAssumption DEF LocksInv
  <2>6. \A q \in SshCaller, d \in Connection : Untracking(q, d)' <=> Untracking(q, d)
    BY <2>1, <2>2 DEF Untracking
  <2>7. \A d \in Connection : d \in repeated' \/ ListedInv(d)'
    BY <2>1, <2>3, <2>6 DEF SshConnectionsInv, ListedInv, Listed
  <2> QED
    BY <2>4, <2>5, <2>7 DEF SshConnectionsInv
<1>2. ASSUME NEW c \in Connection, GoStale(c) \/ UpdateConnectionActivity(c)
      PROVE  SshConnectionsInv'
  <2>1. /\ muHolder = NoCaller /\ stale' \subseteq connections
        /\ UNCHANGED <<connections, envConnections, muHolder, envMuHolder, sshCall, sshCalls,
                       repeated>>
    BY <1>0, <1>2 DEF GoStale, UpdateConnectionActivity, SshConnectionsTypeOK
  <2>2. \A p \in SshCaller : sshCall[p].at # "sweep"
    BY <1>0, <2>1, SshCallAssumption DEF LocksInv
  <2>3. SshConnectionsTypeOK' /\ LocksInv'
    BY <1>0, <2>1, <2>2 DEF SshConnectionsTypeOK, LocksInv, Tracked
  <2>4. \A d \in Connection : ListedInv(d)' <=> ListedInv(d)
    BY <2>1 DEF ListedInv, Listed, Untracking, Places
  <2> QED
    BY <2>1, <2>3, <2>4 DEF SshConnectionsInv
<1>3. CASE UNCHANGED sshVars
  <2>1. \A d \in Connection : ListedInv(d)' <=> ListedInv(d)
    BY <1>3 DEF sshVars, ListedInv, Listed, Untracking, Places
  <2> QED
    BY <1>3, <2>1 DEF sshVars, SshConnectionsInv, SshConnectionsTypeOK, LocksInv, Tracked
<1> QED
  BY <1>1, <1>2, <1>3, RegisterStep, StoreStep, UnregisterStep, UntrackStep, SweepStep
     DEF SshConnectionsNext

LEMMA SshConnectionsGood == SshConnectionsInv => SshConnectionsTypeOK /\ SlotsAreAccounted
  BY DEF SshConnectionsInv, LocksInv, ListedInv, Listed, Untracking, SlotsAreAccounted

-----------------------------------------------------------------------------
(* Subscriptions.  Without two requests at once, the request under way knows *)
(* the one active row.                                                       *)

\* A finite set of numbers that is not empty has a greatest one.
LEMMA Greatest ==
    ASSUME NEW S, S \subseteq Nat, S # {}, IsFiniteSet(S)
    PROVE  \E m \in S : \A j \in S : j <= m
<1> DEFINE bad == {k \in Nat : \E T \in SUBSET S : /\ T # {} /\ IsFiniteSet(T) /\ Cardinality(T) = k
                                                  /\ ~ \E m \in T : \A j \in T : j <= m}
<1>1. SUFFICES bad = {}
  BY FS_CardinalityType
<1>2. SUFFICES ASSUME bad # {} PROVE FALSE
  OBVIOUS
<1>3. PICK k \in bad : \A j \in bad : k <= j
  <2>1. bad \subseteq Nat
    OBVIOUS
  <2> HIDE DEF bad
  <2> QED
    BY <1>2, <2>1, Least
<1>4. PICK T \in SUBSET S : /\ T # {} /\ IsFiniteSet(T) /\ Cardinality(T) = k
                            /\ ~ \E m \in T : \A j \in T : j <= m
  BY <1>3
<1>5. PICK x \in T : TRUE
  BY <1>4
<1>6. IsFiniteSet(T \ {x}) /\ Cardinality(T \ {x}) = k - 1 /\ k \in Nat
  BY <1>3, <1>4, <1>5, FS_RemoveElement
<1>7. T \ {x} # {}
  BY <1>4, <1>5
<1>8. k - 1 \in Nat
  BY <1>6, FS_CardinalityType
<1>9. k - 1 \notin bad
  <2> HIDE DEF bad
  <2> QED
    BY <1>3, <1>6, <1>8
<1>10. PICK m \in T \ {x} : \A j \in T \ {x} : j <= m
  BY <1>6, <1>7, <1>8, <1>9
<1>11. m \in Nat /\ x \in Nat
  BY <1>4, <1>5, <1>10
<1>12. CASE x <= m
  BY <1>4, <1>10, <1>12
<1>13. CASE m < x
  <2>1. \A j \in T : j \in Nat
    BY <1>4
  <2>2. \A j \in T : j <= x
    BY <1>10, <1>11, <1>13, <2>1
  <2> QED
    BY <1>4, <1>5, <2>2
<1> QED
  BY <1>11, <1>12, <1>13

LEMMA LargestPlan ==
    /\ Max(PlanLimit) \in Nat
    /\ \A p \in PlanLimit : p <= Max(PlanLimit)
<1>1. \E m \in PlanLimit : \A p \in PlanLimit : m >= p
  <2>1. PICK m \in PlanLimit : \A p \in PlanLimit : p <= m
    BY Greatest, PlanAssumption
  <2> QED
    BY <2>1, PlanAssumption
<1>2. Max(PlanLimit) \in PlanLimit /\ \A p \in PlanLimit : Max(PlanLimit) >= p
  BY <1>1 DEF Max
<1>3. Max(PlanLimit) \in Nat /\ \A p \in PlanLimit : p \in Nat
  BY <1>2, PlanAssumption
<1> HIDE DEF Max
<1> QED
  BY <1>2, <1>3

LEMMA FirstActive ==
    ASSUME Active # {}
    PROVE  GetSubscription \in Active
<1>1. Active \subseteq Nat
  BY SubscriptionAssumption DEF Active
<1>2. \E s \in Active : \A t \in Active : s <= t
  BY <1>1, Least
<1> QED
  BY <1>2 DEF GetSubscription, Min

-----------------------------------------------------------------------------
\* The requests about to use a quota that had a limit when they checked it.
Using == {c \in Client : request[c].at = "use" /\ ~request[c].free}

\* What the row that a request holds, and the plan, are against the tables.
InStep(c) ==
    /\ request[c].at = "insert" => Active = {}
    /\ request[c].at \in {"cancel", "change"} =>
           request[c].id \in Active /\ subscriptions[request[c].id] = request[c].row
    /\ request[c].at = "quotas" => request[c].plan = asked.plan

Calm ==
    /\ \A c, d \in Client : request[c].at # "idle" /\ request[d].at # "idle" => c = d
    /\ \A s, t \in Active : s = t
    /\ \A c \in Client : InStep(c)
    /\ broken \/ (\E c \in Client : request[c].at = "quotas") \/ quota.limit = asked.plan
    /\ asked.changed \/ \A s \in Active : subscriptions[s].plan = asked.plan

\* Every use with a limit that is counted or to come was below the largest one.
UseBounded ==
    /\ \A c \in Using : Max(PlanLimit) >= 1
    /\ quota.used - quota.free + Cardinality(Using) <= Max(PlanLimit) + Cardinality(Client) - 1

SubscriptionsInv ==
    /\ SubscriptionsTypeOK
    /\ \A s \in Active : subscriptions[s].plan \in Plan
    /\ \A c \in Client : request[c].at \in {"insert", "cancel", "change"} =>
           /\ request[c].id \in Subscription
           /\ request[c].row.status = "active" /\ request[c].row.plan \in Plan
    /\ \A c \in Client : request[c].at = "quotas" => request[c].plan \in Plan
    /\ raced \/ Calm
    /\ UseBounded

LEMMA RowsOfRequests ==
    /\ Absent \in SubscriptionRow /\ Absent.status = "none"
    /\ Waiting \in RequestRow /\ Waiting.at = "idle"
    /\ \A plan \in Plan :
          LET row == [status |-> "active", plan |-> plan, cancelAtPeriodEnd |-> FALSE]
          IN  row \in SubscriptionRow
    /\ \A row \in SubscriptionRow :
          /\ [row EXCEPT !.status = "canceled"] \in SubscriptionRow
          /\ [row EXCEPT !.status = "canceled"].status = "canceled"
          /\ [row EXCEPT !.cancelAtPeriodEnd = TRUE] \in SubscriptionRow
          /\ [row EXCEPT !.cancelAtPeriodEnd = TRUE].status = row.status
          /\ [row EXCEPT !.cancelAtPeriodEnd = TRUE].plan = row.plan
    /\ \A plan \in Plan :
          /\ ThenQuotas(plan) \in RequestRow
          /\ ThenQuotas(plan).at = "quotas" /\ ThenQuotas(plan).plan = plan
<1>1. Absent \in SubscriptionRow /\ Absent.status = "none"
  BY DEF Absent, SubscriptionRow
<1>2. Waiting \in RequestRow /\ Waiting.at = "idle"
  BY <1>1 DEF Waiting, RequestRow, RequestPlace
<1>3. \A plan \in Plan :
          LET row == [status |-> "active", plan |-> plan, cancelAtPeriodEnd |-> FALSE]
          IN  row \in SubscriptionRow
  BY DEF SubscriptionRow
<1>4. \A plan \in Plan :
          /\ ThenQuotas(plan) \in RequestRow
          /\ ThenQuotas(plan).at = "quotas" /\ ThenQuotas(plan).plan = plan
  BY <1>2 DEF ThenQuotas, RequestRow, RequestPlace
<1> QED
  BY <1>1, <1>2, <1>3, <1>4 DEF SubscriptionRow

LEMMA UsersCounted ==
    /\ Using \subseteq Client /\ IsFiniteSet(Using)
    /\ Cardinality(Using) \in Nat /\ Cardinality(Client) \in Nat
    /\ Cardinality(Using) <= Cardinality(Client)
    /\ Cardinality(Client) >= 1
<1>1. Using \subseteq Client
  BY DEF Using
<1>2. Cardinality(Client) # 0
  BY ClientAssumption, FS_EmptySet
<1> QED
  BY <1>1, <1>2, ClientAssumption, FS_Subset, FS_CardinalityType

LEMMA SubscriptionsStart == SubscriptionsInit => SubscriptionsInv
<1> SUFFICES ASSUME SubscriptionsInit PROVE SubscriptionsInv
  OBVIOUS
<1>1. SubscriptionsTypeOK
  BY RowsOfRequests DEF SubscriptionsInit, SubscriptionsTypeOK, QuotaRow
<1>2. Active = {} /\ Using = {} /\ \A c \in Client : request[c].at = "idle"
  BY RowsOfRequests DEF SubscriptionsInit, Active, Using
<1>3. Cardinality(Using) = 0
  BY <1>2, FS_EmptySet
<1>4. quota.limit = asked.plan /\ quota.used = 0 /\ quota.free = 0
  BY DEF SubscriptionsInit
<1>5. UseBounded
  BY <1>2, <1>3, <1>4, LargestPlan, UsersCounted DEF UseBounded
<1> QED
  BY <1>1, <1>2, <1>4, <1>5 DEF SubscriptionsInv, Calm, InStep

\* The request c moves to a row r; the others stay.
LEMMA OneRequestMoves ==
    ASSUME SubscriptionsTypeOK, NEW c \in Client, NEW r \in RequestRow,
           request' = [request EXCEPT ![c] = r]
    PROVE  /\ request' \in [Client -> RequestRow] /\ request'[c] = r
           /\ \A d \in Client \ {c} : request'[d] = request[d]
           /\ Using' = IF r.at = "use" /\ ~r.free THEN Using \cup {c} ELSE Using \ {c}
<1>1. request \in [Client -> RequestRow]
  BY DEF SubscriptionsTypeOK
<1>2. /\ request' \in [Client -> RequestRow] /\ request'[c] = r
      /\ \A d \in Client \ {c} : request'[d] = request[d]
  BY <1>1
<1> QED
  BY <1>2 DEF Using

LEMMA BeginKeeps ==
    ASSUME SubscriptionsInv, NEW c \in Client, NEW r \in RequestRow, Begin(c, r),
           r.at \in {"insert", "cancel", "change", "use"},
           r.at # "use" => r.row.plan \in Plan /\ r.id \in Subscription /\ r.row.status = "active",
           r.at = "insert" => Active = {},
           r.at \in {"cancel", "change"} => r.id \in Active /\ subscriptions[r.id] = r.row,
           r.at = "use" => HasQuota /\ r.free = NoLimit
    PROVE  SubscriptionsInv'
<1>2. /\ request[c].at = "idle" /\ request' = [request EXCEPT ![c] = r]
      /\ raced' = (raced \/ \E d \in Client : request[d].at # "idle")
      /\ UNCHANGED <<subscriptions, quota, asked, broken>>
  BY DEF Begin
<1>3. SubscriptionsTypeOK
  BY DEF SubscriptionsInv
<1>4. /\ request' \in [Client -> RequestRow] /\ request'[c] = r
      /\ \A d \in Client \ {c} : request'[d] = request[d]
      /\ Using' = IF r.at = "use" /\ ~r.free THEN Using \cup {c} ELSE Using \ {c}
  BY <1>2, <1>3, OneRequestMoves
<1>5. Active' = Active
  BY <1>2 DEF Active
<1>6. SubscriptionsTypeOK'
  BY <1>2, <1>3, <1>4 DEF SubscriptionsTypeOK
<1>7. UseBounded'
  <2>1. /\ quota.used \in Nat /\ quota.free \in Nat
        /\ quota.limit \in PlanLimit \cup {Unlimited, NoPlan}
    BY <1>3 DEF SubscriptionsTypeOK, QuotaRow, Plan
  <2>2. CASE r.at # "use" \/ r.free
    <3>1. Using' = Using
      BY <1>2, <1>4, <2>2 DEF Using
    <3> QED
      BY <1>2, <3>1 DEF SubscriptionsInv, UseBounded
  <2>3. CASE r.at = "use" /\ ~r.free
    <3>1. quota.used + 1 <= Max(PlanLimit)
      <4>1. quota.limit \in PlanLimit /\ quota.used + 1 <= quota.limit
        BY <2>1, <2>3 DEF HasQuota, NoLimit
      <4>2. quota.limit \in Nat /\ quota.limit <= Max(PlanLimit)
        BY <4>1, LargestPlan, PlanAssumption
      <4> QED
        BY <2>1, <4>1, <4>2, LargestPlan
    <3>2. Using' \subseteq Client
      BY <1>4, UsersCounted
    <3>3. Cardinality(Using') \in Nat /\ Cardinality(Using') <= Cardinality(Client)
      BY <3>2, ClientAssumption, FS_Subset, FS_CardinalityType
    <3>4. quota'.used = quota.used /\ quota'.free = quota.free
      BY <1>2
    <3>5. Max(PlanLimit) >= 1
      BY <2>1, <3>1, LargestPlan
    <3>6. quota'.used - quota'.free + Cardinality(Using')
              <= Max(PlanLimit) + Cardinality(Client) - 1
      BY <2>1, <3>1, <3>3, <3>4, LargestPlan, UsersCounted
    <3> QED
      BY <3>5, <3>6 DEF UseBounded
  <2> QED
    BY <2>2, <2>3
<1>8. ASSUME ~raced'
      PROVE  Calm'
  <2>1. ~raced /\ \A d \in Client : request[d].at = "idle"
    BY <1>2, <1>8
  <2>2. \A d \in Client : d # c => request'[d].at = "idle"
    BY <1>4, <2>1
  <2>3. Calm /\ ~ \E d \in Client : request[d].at = "quotas"
    BY <2>1 DEF SubscriptionsInv
  <2>4. \A d \in Client : InStep(d)'
    BY <1>2, <1>4, <1>5, <2>2 DEF InStep
  <2> QED
    BY <1>2, <1>5, <2>2, <2>3, <2>4 DEF Calm
<1>9. \A d \in Client : request'[d].at \in {"insert", "cancel", "change"} =>
           /\ request'[d].id \in Subscription
           /\ request'[d].row.status = "active" /\ request'[d].row.plan \in Plan
  BY <1>4 DEF SubscriptionsInv
<1>10. \A d \in Client : request'[d].at = "quotas" => request'[d].plan \in Plan
  BY <1>4 DEF SubscriptionsInv
<1>11. \A s \in Active' : subscriptions'[s].plan \in Plan
  BY <1>2, <1>5 DEF SubscriptionsInv
<1> QED
  BY <1>6, <1>7, <1>8, <1>9, <1>10, <1>11 DEF SubscriptionsInv

\* A request that saves a row: what has to be shown of the row, of the plan that
\* was asked for and of where the request goes.
LEMMA SaveKeeps ==
    ASSUME SubscriptionsInv, NEW c \in Client, request[c].at \in {"insert", "cancel", "change"},
           NEW row \in SubscriptionRow, NEW next \in RequestRow,
           SaveSubscription(c, row, next),
           row.plan = request[c].row.plan,
           asked' \in [plan : Plan \cup {NoPlan}, changed : BOOLEAN],
           \/ next.at = "idle" /\ request[c].at # "insert" /\ UNCHANGED asked
           \/ /\ next.at = "quotas" /\ next.plan \in Plan /\ asked'.plan = next.plan
              /\ asked'.changed \/ asked'.plan = row.plan
    PROVE  SubscriptionsInv'
<1> DEFINE id == request[c].id
<1>1. SubscriptionsTypeOK /\ id \in Subscription
  BY DEF SubscriptionsInv
<1>2. /\ subscriptions' = [subscriptions EXCEPT ![id] = row]
      /\ request' = [request EXCEPT ![c] = next]
      /\ UNCHANGED <<quota, raced, broken>>
  BY DEF SaveSubscription
<1>3. /\ request' \in [Client -> RequestRow] /\ request'[c] = next
      /\ \A d \in Client \ {c} : request'[d] = request[d]
      /\ Using' = IF next.at = "use" /\ ~next.free THEN Using \cup {c} ELSE Using \ {c}
  BY <1>1, <1>2, OneRequestMoves
<1>4. Using' = Using
  BY <1>3 DEF Using
<1> HIDE DEF id
<1>5. /\ subscriptions' \in [Subscription -> SubscriptionRow] /\ subscriptions'[id] = row
      /\ \A s \in Subscription \ {id} : subscriptions'[s] = subscriptions[s]
  BY <1>1, <1>2 DEF SubscriptionsTypeOK
<1>6. Active' = IF row.status = "active" THEN Active \cup {id} ELSE Active \ {id}
  BY <1>1, <1>5 DEF Active
<1>7. SubscriptionsTypeOK'
  BY <1>1, <1>2, <1>3, <1>5 DEF SubscriptionsTypeOK
<1>8. \A s \in Active' : subscriptions'[s].plan \in Plan
  BY <1>5, <1>6 DEF SubscriptionsInv, Active
<1>9. /\ \A d \in Client : request'[d].at \in {"insert", "cancel", "change"} =>
             /\ request'[d].id \in Subscription
             /\ request'[d].row.status = "active" /\ request'[d].row.plan \in Plan
      /\ \A d \in Client : request'[d].at = "quotas" => request'[d].plan \in Plan
  BY <1>3 DEF SubscriptionsInv
<1>10. ASSUME ~raced
       PROVE  Calm'
  <2>1. Calm
    BY <1>10 DEF SubscriptionsInv
  <2>2. \A d \in Client : d # c => request[d].at = "idle" /\ request'[d].at = "idle"
    BY <1>3, <2>1 DEF Calm
  <2>3. InStep(c) /\ \A s, t \in Active : s = t
    BY <2>1 DEF Calm
  <2>4. Active \subseteq {id}
    BY <2>3 DEF InStep, id
  <2>5. Active' \subseteq {id}
    BY <1>6, <2>4
  <2>6. \A d \in Client : InStep(d)'
    BY <1>3, <2>2 DEF InStep
  <2>7. broken' \/ (\E d \in Client : request'[d].at = "quotas") \/ quota'.limit = asked'.plan
    <3>1. \A d \in Client : request[d].at # "quotas"
      BY <2>2
    <3> QED
      BY <1>2, <1>3, <2>1, <3>1 DEF Calm
  <2>8. asked'.changed \/ \A s \in Active' : subscriptions'[s].plan = asked'.plan
    <3> SUFFICES ASSUME ~asked'.changed, NEW s \in Active'
                 PROVE  subscriptions'[s].plan = asked'.plan
      OBVIOUS
    <3>1. s = id /\ subscriptions'[s].plan = row.plan
      BY <1>5, <2>5
    <3>2. CASE next.at = "idle"
      <4>1. request[c].at \in {"cancel", "change"} /\ UNCHANGED asked
        BY <3>2
      <4>2. id \in Active /\ subscriptions[id] = request[c].row
        BY <2>3, <4>1 DEF InStep, id
      <4>3. subscriptions[id].plan = asked.plan
        BY <2>1, <4>1, <4>2 DEF Calm
      <4> QED
        BY <3>1, <4>1, <4>2, <4>3
    <3> QED
      BY <3>1, <3>2
  <2>9. \A d, e \in Client : request'[d].at # "idle" /\ request'[e].at # "idle" => d = e
    BY <2>2
  <2> QED
    BY <2>5, <2>6, <2>7, <2>8, <2>9 DEF Calm
<1>11. UseBounded'
  BY <1>2, <1>4 DEF SubscriptionsInv, UseBounded
<1> QED
  BY <1>2, <1>7, <1>8, <1>9, <1>10, <1>11 DEF SubscriptionsInv

LEMMA SubscriptionsStep ==
    ASSUME SubscriptionsInv, [SubscriptionsNext]_subscriptionVars
    PROVE  SubscriptionsInv'
<1>0. SubscriptionsTypeOK
  BY DEF SubscriptionsInv
<1>r. \A c \in Client : request[c] \in RequestRow /\ request[c].row \in SubscriptionRow
                         /\ request[c].id \in Subscription \cup {0}
  BY <1>0 DEF SubscriptionsTypeOK, RequestRow
<1>1. ASSUME NEW c \in Client, NEW s \in Subscription, NEW plan \in Plan,
             RequestSubscription(c, s, plan)
      PROVE  SubscriptionsInv'
  <2> DEFINE row == [status |-> "active", plan |-> plan, cancelAtPeriodEnd |-> FALSE]
             r == [Waiting EXCEPT !.at = "insert", !.id = s, !.row = row]
  <2>1. row \in SubscriptionRow /\ row.plan = plan /\ row.status = "active"
    BY RowsOfRequests
  <2>2. Active = {} /\ Begin(c, r)
    BY <1>1 DEF RequestSubscription
  <2> HIDE DEF row
  <2>3. r \in RequestRow /\ r.at = "insert" /\ r.id = s /\ r.row = row
    BY <2>1, RowsOfRequests DEF RequestRow, RequestPlace, Waiting
  <2> HIDE DEF r
  <2> QED
    BY <2>1, <2>2, <2>3, BeginKeeps
<1>2. ASSUME NEW c \in Client, CreateSubscription(c)
      PROVE  SubscriptionsInv'
  <2> DEFINE next == ThenQuotas(request[c].row.plan)
  <2>1. /\ request[c].at = "insert" /\ SaveSubscription(c, request[c].row, next)
        /\ asked' = [plan |-> request[c].row.plan, changed |-> FALSE]
    BY <1>2 DEF CreateSubscription
  <2>2. request[c].row.plan \in Plan
    BY <2>1 DEF SubscriptionsInv
  <2>3. next \in RequestRow /\ next.at = "quotas" /\ next.plan = request[c].row.plan
    BY <2>2, RowsOfRequests
  <2> HIDE DEF next
  <2> QED
    BY <1>r, <2>1, <2>2, <2>3, SaveKeeps
<1>3. ASSUME NEW c \in Client, RequestCancel(c) \/ RequestChange(c)
      PROVE  SubscriptionsInv'
  <2> DEFINE id == GetSubscription
             Row(place) == [Waiting EXCEPT !.at = place, !.id = id, !.row = subscriptions[id]]
  <2>1. id \in Active
    BY <1>3, FirstActive DEF RequestCancel, RequestChange
  <2>2. /\ id \in Subscription /\ subscriptions[id] \in SubscriptionRow
        /\ subscriptions[id].status = "active" /\ subscriptions[id].plan \in Plan
    BY <1>0, <2>1 DEF Active, SubscriptionsInv, SubscriptionsTypeOK
  <2>3. Begin(c, Row("cancel")) \/ Begin(c, Row("change"))
    BY <1>3 DEF RequestCancel, RequestChange, BeginWith
  <2> HIDE DEF id
  <2>4. \A place \in {"cancel", "change"} :
            /\ Row(place) \in RequestRow /\ Row(place).at = place
            /\ Row(place).id = id /\ Row(place).row = subscriptions[id]
    BY <2>2, RowsOfRequests DEF RequestRow, RequestPlace, Waiting
  <2> HIDE DEF Row
  <2>5. PICK place \in {"cancel", "change"} : Begin(c, Row(place))
    BY <2>3
  <2> QED
    BY <2>1, <2>2, <2>4, <2>5, BeginKeeps
<1>4. ASSUME NEW c \in Client, NEW immediate \in BOOLEAN, CancelSubscription(c, immediate)
      PROVE  SubscriptionsInv'
  <2> DEFINE row == IF immediate THEN [request[c].row EXCEPT !.status = "canceled"]
                    ELSE [request[c].row EXCEPT !.cancelAtPeriodEnd = TRUE]
  <2>1. request[c].at = "cancel" /\ SaveSubscription(c, row, Waiting) /\ UNCHANGED asked
    BY <1>4 DEF CancelSubscription
  <2>2. row \in SubscriptionRow
    BY <1>r, RowsOfRequests
  <2>3. row.plan = request[c].row.plan
    BY <1>r DEF SubscriptionRow
  <2>4. asked' \in [plan : Plan \cup {NoPlan}, changed : BOOLEAN]
    BY <1>0, <2>1 DEF SubscriptionsTypeOK
  <2> HIDE DEF row
  <2> QED
    BY <2>1, <2>2, <2>3, <2>4, SaveKeeps, RowsOfRequests
<1>5. ASSUME NEW c \in Client, NEW plan \in Plan, ChangePlan(c, plan)
      PROVE  SubscriptionsInv'
  <2> DEFINE next == ThenQuotas(plan)
  <2>1. /\ request[c].at = "change" /\ SaveSubscription(c, request[c].row, next)
        /\ asked' = [plan |-> plan, changed |-> TRUE]
    BY <1>5 DEF ChangePlan
  <2>2. next \in RequestRow /\ next.at = "quotas" /\ next.plan = plan
    BY RowsOfRequests
  <2> HIDE DEF next
  <2> QED
    BY <1>r, <2>1, <2>2, SaveKeeps
<1>6. ASSUME NEW c \in Client, InitializeQuotas(c) \/ RequestFails(c) \/ IncrementQuotaUsage(c)
      PROVE  SubscriptionsInv'
  <2>1. /\ request[c].at # "idle" /\ request' = [request EXCEPT ![c] = Waiting]
        /\ UNCHANGED <<subscriptions, asked, raced>>
        /\ broken \/ broken' = (broken \/ (request[c].at = "quotas" /\ RequestFails(c)))
        /\ broken' \in BOOLEAN /\ (broken => broken')
    BY <1>0, <1>6 DEF InitializeQuotas, RequestFails, IncrementQuotaUsage, SubscriptionsTypeOK
  <2>2. /\ request' \in [Client -> RequestRow] /\ request'[c].at = "idle"
        /\ \A d \in Client \ {c} : request'[d] = request[d]
        /\ Using' = Using \ {c}
    BY <1>0, <2>1, OneRequestMoves, RowsOfRequests
  <2>3. Active' = Active
    BY <2>1 DEF Active
  <2>4. /\ \A s \in Active' : subscriptions'[s].plan \in Plan
        /\ \A d \in Client : request'[d].at \in {"insert", "cancel", "change"} =>
               /\ request'[d].id \in Subscription
               /\ request'[d].row.status = "active" /\ request'[d].row.plan \in Plan
        /\ \A d \in Client : request'[d].at = "quotas" => request'[d].plan \in Plan
    BY <2>1, <2>2, <2>3 DEF SubscriptionsInv
  <2>5. raced' \/ /\ \A d, e \in Client : request'[d].at # "idle" /\ request'[e].at # "idle" => d = e
                  /\ \A s, t \in Active' : s = t
                  /\ asked'.changed \/ \A s \in Active' : subscriptions'[s].plan = asked'.plan
    BY <2>1, <2>2, <2>3 DEF SubscriptionsInv, Calm
  <2>6. raced' \/ \A d \in Client : InStep(d)'
    BY <2>1, <2>2, <2>3 DEF SubscriptionsInv, Calm, InStep
  <2>7. CASE InitializeQuotas(c)
    <3>1. /\ request[c].at = "quotas" /\ request[c].plan \in Plan
          /\ quota' = [quota EXCEPT !.limit = request[c].plan] /\ UNCHANGED broken
      BY <2>7 DEF InitializeQuotas, SubscriptionsInv
    <3>2. /\ quota'.limit = request[c].plan /\ quota' \in QuotaRow
          /\ quota'.used = quota.used /\ quota'.free = quota.free
      BY <1>0, <3>1 DEF SubscriptionsTypeOK, QuotaRow
    <3>3. SubscriptionsTypeOK'
      BY <1>0, <2>1, <2>2, <3>1, <3>2 DEF SubscriptionsTypeOK
    <3>4. Using' = Using
      BY <2>2, <3>1 DEF Using
    <3>5. UseBounded'
      BY <3>2, <3>4 DEF SubscriptionsInv, UseBounded
    <3>6. raced' \/ quota'.limit = asked'.plan
      BY <2>1, <3>1, <3>2 DEF SubscriptionsInv, Calm, InStep
    <3>7. raced' \/ Calm'
      BY <2>5, <2>6, <3>6 DEF Calm
    <3> QED
      BY <2>4, <3>3, <3>5, <3>7 DEF SubscriptionsInv
  <2>8. CASE RequestFails(c)
    <3>1. /\ request[c].at # "use" /\ broken' = (broken \/ request[c].at = "quotas")
          /\ UNCHANGED quota
      BY <2>8 DEF RequestFails
    <3>2. Using' = Using
      BY <2>2, <3>1 DEF Using
    <3>3. SubscriptionsTypeOK'
      BY <1>0, <2>1, <2>2, <3>1 DEF SubscriptionsTypeOK
    <3>4. \/ raced' \/ broken' \/ (\E d \in Client : request'[d].at = "quotas")
          \/ quota'.limit = asked'.plan
      BY <2>1, <2>2, <3>1 DEF SubscriptionsInv, Calm
    <3>5. UseBounded'
      BY <3>1, <3>2 DEF SubscriptionsInv, UseBounded
    <3>6. raced' \/ Calm'
      BY <2>5, <2>6, <3>4 DEF Calm
    <3> QED
      BY <2>4, <3>3, <3>5, <3>6 DEF SubscriptionsInv
  <2>9. CASE IncrementQuotaUsage(c)
    <3>1. /\ request[c].at = "use" /\ UNCHANGED broken
          /\ quota' = IF quota.limit = NoPlan THEN quota
                      ELSE [quota EXCEPT !.used = @ + 1,
                                         !.free = IF request[c].free THEN @ + 1 ELSE @]
      BY <2>9 DEF IncrementQuotaUsage
    <3>2. /\ quota'.limit = quota.limit /\ quota' \in QuotaRow
          /\ quota.used \in Nat /\ quota.free \in Nat /\ quota'.used \in Nat /\ quota'.free \in Nat
          /\ IF request[c].free THEN quota'.used - quota'.free = quota.used - quota.free
             ELSE quota'.used - quota'.free <= quota.used - quota.free + 1
      <4>1. quota \in QuotaRow
        BY <1>0 DEF SubscriptionsTypeOK
      <4>2. CASE quota.limit = NoPlan
        BY <3>1, <4>1, <4>2 DEF QuotaRow
      <4>3. CASE quota.limit # NoPlan /\ request[c].free
        <5>1. quota' = [limit |-> quota.limit, used |-> quota.used + 1, free |-> quota.free + 1]
          BY <3>1, <4>1, <4>3 DEF QuotaRow
        <5>2. quota.used \in Nat /\ quota.free \in Nat /\ quota.limit \in Plan \cup {NoPlan}
          BY <4>1 DEF QuotaRow
        <5> QED
          BY <5>1, <5>2, <4>3 DEF QuotaRow
      <4>4. CASE quota.limit # NoPlan /\ ~request[c].free
        <5>1. quota' = [limit |-> quota.limit, used |-> quota.used + 1, free |-> quota.free]
          BY <3>1, <4>1, <4>4 DEF QuotaRow
        <5>2. quota.used \in Nat /\ quota.free \in Nat /\ quota.limit \in Plan \cup {NoPlan}
          BY <4>1 DEF QuotaRow
        <5> QED
          BY <5>1, <5>2, <4>4 DEF QuotaRow
      <4> QED
        BY <4>2, <4>3, <4>4
    <3>3. SubscriptionsTypeOK'
      BY <1>0, <2>1, <2>2, <3>1, <3>2 DEF SubscriptionsTypeOK
    <3>4. /\ request[c].free => Using' = Using
          /\ ~request[c].free => Cardinality(Using') = Cardinality(Using) - 1
      <4>1. request[c].free => Using' = Using
        BY <2>2 DEF Using
      <4>2. ASSUME ~request[c].free
            PROVE  Cardinality(Using') = Cardinality(Using) - 1
        <5>1. c \in Using
          BY <3>1, <4>2 DEF Using
        <5>2. Cardinality(Using \ {c}) = Cardinality(Using) - 1
          BY <5>1, UsersCounted, FS_RemoveElement
        <5> QED
          BY <2>2, <5>2
      <4> QED
        BY <4>1, <4>2
    <3>5. UseBounded'
      <4>1. UseBounded
        BY DEF SubscriptionsInv
      <4>2. quota'.used - quota'.free + Cardinality(Using')
                <= quota.used - quota.free + Cardinality(Using)
        BY <3>2, <3>4, UsersCounted
      <4>3. Cardinality(Using') \in Int
        BY <3>4, UsersCounted
      <4>4. quota'.used - quota'.free + Cardinality(Using')
                <= Max(PlanLimit) + Cardinality(Client) - 1
        BY <3>2, <4>1, <4>2, <4>3, UsersCounted, LargestPlan DEF UseBounded
      <4> QED
        BY <2>2, <4>1, <4>4 DEF UseBounded
    <3>6. \/ raced' \/ broken' \/ (\E d \in Client : request'[d].at = "quotas")
          \/ quota'.limit = asked'.plan
      BY <2>1, <2>2, <3>1, <3>2 DEF SubscriptionsInv, Calm
    <3>7. raced' \/ Calm'
      BY <2>5, <2>6, <3>6 DEF Calm
    <3> QED
      BY <2>4, <3>3, <3>5, <3>7 DEF SubscriptionsInv
  <2> QED
    BY <1>6, <2>7, <2>8, <2>9
<1>7. ASSUME NEW c \in Client, CheckQuota(c)
      PROVE  SubscriptionsInv'
  <2> DEFINE r == [Waiting EXCEPT !.at = "use", !.free = NoLimit]
  <2>1. HasQuota /\ Begin(c, r)
    BY <1>7 DEF CheckQuota
  <2>2. NoLimit \in BOOLEAN
    BY DEF NoLimit
  <2>3. r \in RequestRow /\ r.at = "use" /\ r.free = NoLimit
    BY <2>2, RowsOfRequests DEF RequestRow, RequestPlace, Waiting
  <2> HIDE DEF r
  <2> QED
    BY <2>1, <2>3, BeginKeeps
<1>8. CASE ResetMonthlyQuotas
  <2>1. /\ quota'.limit = quota.limit /\ quota'.used = 0 /\ quota'.free = 0 /\ quota' \in QuotaRow
    BY <1>0, <1>8 DEF ResetMonthlyQuotas, SubscriptionsTypeOK, QuotaRow
  <2>2. UNCHANGED <<subscriptions, request, asked, raced, broken>>
    BY <1>8 DEF ResetMonthlyQuotas
  <2>3. Active' = Active /\ Using' = Using
    BY <2>2 DEF Active, Using
  <2>4. SubscriptionsTypeOK'
    BY <1>0, <2>1, <2>2 DEF SubscriptionsTypeOK
  <2>5. UseBounded'
    <3>1. UseBounded
      BY DEF SubscriptionsInv
    <3>2. CASE Using = {}
      <4>1. Cardinality(Using) = 0
        BY <3>2, FS_EmptySet
      <4> QED
        BY <2>1, <2>3, <3>2, <4>1, UsersCounted, LargestPlan DEF UseBounded
    <3>3. CASE Using # {}
      <4>1. Max(PlanLimit) >= 1
        BY <3>1, <3>3 DEF UseBounded
      <4> QED
        BY <2>1, <2>3, <4>1, UsersCounted, LargestPlan DEF UseBounded
    <3> QED
      BY <3>2, <3>3
  <2>6. raced' \/ Calm'
    BY <2>1, <2>2, <2>3 DEF SubscriptionsInv, Calm, InStep
  <2> QED
    BY <2>2, <2>3, <2>4, <2>5, <2>6 DEF SubscriptionsInv
<1>9. CASE UNCHANGED subscriptionVars
  BY <1>9 DEF subscriptionVars, SubscriptionsInv, SubscriptionsTypeOK, Calm, InStep, Active,
              UseBounded, Using
<1> QED
  BY <1>1, <1>2, <1>3, <1>4, <1>5, <1>6, <1>7, <1>8, <1>9 DEF SubscriptionsNext

LEMMA SubscriptionsGood ==
    SubscriptionsInv => /\ SubscriptionsTypeOK /\ OneActiveSubscription
                        /\ QuotaFollowsPlan /\ QuotaOvershootBounded
<1> SUFFICES ASSUME SubscriptionsInv
             PROVE  OneActiveSubscription /\ QuotaFollowsPlan /\ QuotaOvershootBounded
  BY DEF SubscriptionsInv
<1>1. OneActiveSubscription
  <2>1. IsFiniteSet(Active)
    BY SubscriptionAssumption, FS_Subset DEF Active
  <2> QED
    BY <2>1, MoreThanOne DEF SubscriptionsInv, Calm, OneActiveSubscription
<1>2. QuotaFollowsPlan
  BY DEF SubscriptionsInv, Calm, QuotaFollowsPlan
<1>3. QuotaOvershootBounded
  <2>1. /\ quota.used \in Nat /\ quota.free \in Nat
        /\ quota.used - quota.free + Cardinality(Using)
               <= Max(PlanLimit) + Cardinality(Client) - 1
    BY DEF SubscriptionsInv, SubscriptionsTypeOK, QuotaRow, UseBounded
  <2> QED
    BY <2>1, UsersCounted, LargestPlan DEF QuotaOvershootBounded
<1> QED
  BY <1>1, <1>2, <1>3

-----------------------------------------------------------------------------
(* Preview domains.  What a deletion has gone past is gone or could not be   *)
(* deleted, and a verification that a deletion or a new name crossed is      *)
(* known to have been crossed.                                               *)

DomainRow == [present : BOOLEAN, custom : BOOLEAN, status : DomainStatus,
              name : Name \cup {NoName}, found : Name \cup {NoName}]

LinkRow == [there : BOOLEAN, active : BOOLEAN, expired : BOOLEAN, views : 0..MaxViews]

MismatchRow == [name : BOOLEAN, link : BOOLEAN, kept : BOOLEAN, count : BOOLEAN]

DomainInv ==
    /\ domain.status = "none" => ~domain.present /\ ~domain.custom
    /\ removing # "no" => domain.present
    /\ removing \in {"certificate", "entry"} /\ provided.record => mismatch.kept
    /\ removing = "entry" /\ provided.certificate => mismatch.kept \/ mismatch.name
    /\ ~domain.present /\ provided.record => mismatch.kept
    /\ ~domain.present /\ provided.certificate => mismatch.kept \/ mismatch.name
    /\ verifying # NoName /\ (removing # "no" \/ ~domain.present) => mismatch.name
    /\ verifying # NoName => verifying = domain.name \/ mismatch.name
    /\ domain.custom /\ domain.status = "Active" => domain.found = domain.name \/ mismatch.name

ShareLinksInv ==
    /\ ~domain.present /\ linking \cup ActiveLinks # {} => mismatch.link
    /\ mismatch.count \/ Cardinality(ActiveLinks \cup linking) <= MaxLinks

PreviewInv == PreviewTypeOK /\ DomainInv /\ ShareLinksInv

LEMMA LinksFinite ==
    ASSUME PreviewTypeOK
    PROVE  /\ IsFiniteSet(ActiveLinks \cup linking) /\ IsFiniteSet(ActiveLinks)
           /\ Cardinality(ActiveLinks \cup linking) \in Nat
           /\ Cardinality(ActiveLinks) \in Nat
           /\ Cardinality(ActiveLinks) <= Cardinality(ActiveLinks \cup linking)
<1>1. ActiveLinks \cup linking \subseteq Link
  BY DEF PreviewTypeOK, ActiveLinks
<1>2. IsFiniteSet(ActiveLinks \cup linking)
  BY <1>1, PreviewAssumption, FS_Subset
<1> QED
  BY <1>2, FS_Subset, FS_CardinalityType

\* Fewer links, active or being created, keep the limit.
LEMMA FewerLinks ==
    ASSUME PreviewTypeOK, ShareLinksInv, PreviewTypeOK',
           (ActiveLinks \cup linking)' \subseteq ActiveLinks \cup linking,
           mismatch.count => mismatch'.count,
           mismatch.link => mismatch'.link,
           ~domain'.present => ~domain.present
    PROVE  ShareLinksInv'
<1>1. Cardinality((ActiveLinks \cup linking)') <= Cardinality(ActiveLinks \cup linking)
  BY LinksFinite, FS_Subset
<1>2. Cardinality((ActiveLinks \cup linking)') \in Nat
  <2>1. (ActiveLinks \cup linking)' \subseteq Link
    BY DEF PreviewTypeOK, ActiveLinks
  <2> QED
    BY <2>1, PreviewAssumption, FS_Subset, FS_CardinalityType
<1>3. mismatch'.count \/ Cardinality((ActiveLinks \cup linking)') <= MaxLinks
  BY <1>1, <1>2, LinksFinite, PreviewAssumption DEF ShareLinksInv
<1> QED
  BY <1>3 DEF ShareLinksInv

LEMMA PreviewStart == PreviewInit => PreviewInv
<1> SUFFICES ASSUME PreviewInit PROVE PreviewInv
  OBVIOUS
<1>1. PreviewTypeOK
  <2>1. 0 \in 0..MaxViews
    BY PreviewAssumption
  <2>2. NoLink \in LinkRow
    BY <2>1 DEF NoLink, LinkRow
  <2> QED
    BY <2>2 DEF PreviewInit, PreviewTypeOK, LinkRow, DomainStatus
<1>2. ActiveLinks = {} /\ linking = {}
  BY DEF PreviewInit, ActiveLinks, NoLink
<1>3. Cardinality(ActiveLinks \cup linking) = 0
  BY <1>2, FS_EmptySet
<1>4. DomainInv
  BY DEF PreviewInit, DomainInv
<1> QED
  BY <1>1, <1>2, <1>3, <1>4, PreviewAssumption DEF PreviewInv, ShareLinksInv

\* The steps of the domain and of its deletion leave the links alone, but for the last.
LEMMA DomainSteps ==
    ASSUME PreviewTypeOK, DomainInv,
           \/ \E recorded, certified \in BOOLEAN : CreateDomain(recorded, certified)
           \/ \E n \in Name : UpdateDomain(n)
           \/ FindRecord
           \/ \E certified \in BOOLEAN : VerifyCustomDomain(certified)
           \/ BeginDelete
           \/ \E deleted \in BOOLEAN : DeleteRecord(deleted)
           \/ \E deleted \in BOOLEAN : RevokeCertificate(deleted)
    PROVE  /\ PreviewTypeOK' /\ DomainInv' /\ UNCHANGED <<links, linking>>
           /\ mismatch.count => mismatch'.count
           /\ mismatch.link => mismatch'.link
           /\ ~domain'.present => ~domain.present
<1> USE DEF PreviewTypeOK
<1>1. ASSUME NEW recorded \in BOOLEAN, NEW certified \in BOOLEAN, CreateDomain(recorded, certified)
      PROVE  /\ PreviewTypeOK' /\ DomainInv' /\ UNCHANGED <<links, linking, mismatch>>
             /\ domain'.present
  <2>1. /\ domain.status = "none" /\ ~domain.custom /\ ~domain.present /\ removing = "no"
        /\ UNCHANGED <<links, linking, verifying, removing, mismatch>>
    BY <1>1 DEF CreateDomain, DomainInv
  <2>2. CASE /\ domain' = [domain EXCEPT !.present = TRUE,
                                        !.status = IF recorded THEN "Active" ELSE "Failed"]
             /\ provided' = [record |-> recorded, certificate |-> recorded /\ certified]
    <3>1. /\ domain'.present /\ ~domain'.custom /\ domain'.status \in {"Active", "Failed"}
          /\ domain'.name = domain.name /\ domain' \in DomainRow
      BY <2>1, <2>2 DEF DomainRow, DomainStatus
    <3> QED
      BY <2>1, <2>2, <3>1 DEF DomainInv, DomainRow
  <2>3. ASSUME NEW n \in Name,
               domain' = [domain EXCEPT !.present = TRUE, !.custom = TRUE, !.status = "Pending",
                                        !.name = n],
               UNCHANGED provided
        PROVE  /\ PreviewTypeOK' /\ DomainInv' /\ domain'.present
    <3>1. /\ domain'.present /\ domain'.status = "Pending"
          /\ domain'.name = n /\ domain' \in DomainRow
      BY <2>1, <2>3 DEF DomainRow, DomainStatus
    <3>2. verifying = NoName \/ mismatch.name
      BY <2>1 DEF DomainInv
    <3> QED
      BY <2>1, <2>3, <3>1, <3>2 DEF DomainInv, DomainRow
  <2> QED
    BY <1>1, <2>1, <2>2, <2>3 DEF CreateDomain
<1>2. ASSUME NEW n \in Name, UpdateDomain(n)
      PROVE  /\ PreviewTypeOK' /\ DomainInv' /\ UNCHANGED <<links, linking>>
             /\ mismatch.count => mismatch'.count
             /\ mismatch.link => mismatch'.link
             /\ ~domain'.present => ~domain.present
  <2>1. /\ domain' \in DomainRow /\ domain'.present /\ domain.present /\ domain'.status = "Pending"
        /\ domain'.name = n
    BY <1>2 DEF UpdateDomain, DomainRow, DomainStatus
  <2>2. /\ mismatch' \in MismatchRow /\ mismatch'.name = (mismatch.name \/ verifying # NoName)
        /\ mismatch'.kept = mismatch.kept /\ mismatch'.link = mismatch.link
        /\ mismatch'.count = mismatch.count
    BY <1>2 DEF UpdateDomain, MismatchRow
  <2>3. UNCHANGED <<provided, links, linking, verifying, removing>>
    BY <1>2 DEF UpdateDomain
  <2> QED
    BY <2>1, <2>2, <2>3 DEF DomainInv, DomainRow, MismatchRow
<1>3. ASSUME FindRecord
      PROVE  /\ PreviewTypeOK' /\ DomainInv' /\ UNCHANGED <<links, linking>>
             /\ mismatch.count => mismatch'.count
             /\ mismatch.link => mismatch'.link
             /\ ~domain'.present => ~domain.present
  <2>1. /\ domain.present /\ verifying' = domain.name /\ domain.name \in Name \cup {NoName}
        /\ UNCHANGED <<domain, provided, links, linking, removing>>
    BY <1>3 DEF FindRecord
  <2>2. /\ mismatch' \in MismatchRow /\ mismatch'.name = (mismatch.name \/ removing # "no")
        /\ mismatch'.kept = mismatch.kept /\ mismatch'.link = mismatch.link
        /\ mismatch'.count = mismatch.count
    BY <1>3 DEF FindRecord, MismatchRow
  <2> QED
    BY <2>1, <2>2 DEF DomainInv, MismatchRow
<1>4. ASSUME NEW certified \in BOOLEAN, VerifyCustomDomain(certified)
      PROVE  /\ PreviewTypeOK' /\ DomainInv' /\ UNCHANGED <<links, linking>>
             /\ mismatch.count => mismatch'.count
             /\ mismatch.link => mismatch'.link
             /\ ~domain'.present => ~domain.present
  <2>1. /\ verifying # NoName /\ verifying' = NoName
        /\ UNCHANGED <<links, linking, removing, mismatch>>
    BY <1>4 DEF VerifyCustomDomain
  <2>2. /\ domain' \in DomainRow /\ domain'.present = domain.present
        /\ domain'.status = "Active" /\ domain'.name = domain.name /\ domain'.found = verifying
    BY <1>4 DEF VerifyCustomDomain, DomainRow, DomainStatus
  <2>3. /\ provided'.record = provided.record
        /\ provided'.certificate = (provided.certificate \/ certified)
        /\ provided' \in [record : BOOLEAN, certificate : BOOLEAN]
    BY <1>4 DEF VerifyCustomDomain
  <2> QED
    BY <2>1, <2>2, <2>3 DEF DomainInv, DomainRow
<1>5. ASSUME BeginDelete
      PROVE  /\ PreviewTypeOK' /\ DomainInv' /\ UNCHANGED <<links, linking>>
             /\ mismatch.count => mismatch'.count
             /\ mismatch.link => mismatch'.link
             /\ ~domain'.present => ~domain.present
  <2>1. /\ domain.present /\ removing' = "record"
        /\ UNCHANGED <<provided, links, linking, verifying>>
    BY <1>5 DEF BeginDelete
  <2>2. /\ domain' \in DomainRow /\ domain'.present /\ domain'.status = "Deleting"
        /\ domain'.name = domain.name
    BY <1>5, <2>1 DEF BeginDelete, DomainRow, DomainStatus
  <2>3. /\ mismatch' \in MismatchRow /\ mismatch'.name = (mismatch.name \/ verifying # NoName)
        /\ mismatch'.kept = mismatch.kept /\ mismatch'.link = mismatch.link
        /\ mismatch'.count = mismatch.count
    BY <1>5 DEF BeginDelete, MismatchRow
  <2> QED
    BY <2>1, <2>2, <2>3 DEF DomainInv, DomainRow, MismatchRow
<1>6. ASSUME NEW deleted \in BOOLEAN, DeleteRecord(deleted)
      PROVE  /\ PreviewTypeOK' /\ DomainInv' /\ UNCHANGED <<links, linking>>
             /\ mismatch.count => mismatch'.count
             /\ mismatch.link => mismatch'.link
             /\ ~domain'.present => ~domain.present
  <2>1. /\ removing = "record" /\ removing' = "certificate"
        /\ UNCHANGED <<domain, links, linking, verifying>>
    BY <1>6 DEF DeleteRecord
  <2>2. /\ provided'.record = (provided.record /\ ~deleted)
        /\ provided'.certificate = provided.certificate
        /\ provided' \in [record : BOOLEAN, certificate : BOOLEAN]
    BY <1>6 DEF DeleteRecord
  <2>3. /\ mismatch' \in MismatchRow /\ mismatch'.name = mismatch.name
        /\ mismatch'.kept = (mismatch.kept \/ (provided.record /\ ~deleted))
        /\ mismatch'.link = mismatch.link /\ mismatch'.count = mismatch.count
    BY <1>6 DEF DeleteRecord, MismatchRow
  <2> QED
    BY <2>1, <2>2, <2>3 DEF DomainInv, MismatchRow
<1>7. ASSUME NEW deleted \in BOOLEAN, RevokeCertificate(deleted)
      PROVE  /\ PreviewTypeOK' /\ DomainInv' /\ UNCHANGED <<links, linking>>
             /\ mismatch.count => mismatch'.count
             /\ mismatch.link => mismatch'.link
             /\ ~domain'.present => ~domain.present
  <2>1. /\ removing = "certificate" /\ removing' = "entry"
        /\ UNCHANGED <<domain, links, linking, verifying>>
    BY <1>7 DEF RevokeCertificate
  <2>2. /\ provided'.record = provided.record
        /\ provided'.certificate = (provided.certificate /\ ~deleted)
        /\ provided' \in [record : BOOLEAN, certificate : BOOLEAN]
    BY <1>7 DEF RevokeCertificate
  <2>3. /\ mismatch' \in MismatchRow /\ mismatch'.name = mismatch.name
        /\ mismatch'.kept = (mismatch.kept \/ (provided.certificate /\ ~deleted))
        /\ mismatch'.link = mismatch.link /\ mismatch'.count = mismatch.count
    BY <1>7 DEF RevokeCertificate, MismatchRow
  <2> QED
    BY <2>1, <2>2, <2>3 DEF DomainInv, MismatchRow
<1> QED
  BY <1>1, <1>2, <1>3, <1>4, <1>5, <1>6, <1>7

\* The steps of the links leave the domain alone, and all but two of them only end some.
LEMMA LinkSteps ==
    ASSUME PreviewTypeOK, NEW l \in Link,
           \/ CreateShareLink(l) \/ ValidateShareLink(l) \/ RevokeShareLink(l)
           \/ DeleteShareLink(l) \/ LinkExpires(l) \/ CleanupExpiredShareLinks
    PROVE  /\ PreviewTypeOK' /\ UNCHANGED <<domain, provided, verifying, removing, mismatch>>
           /\ (ActiveLinks \cup linking)' \subseteq ActiveLinks \cup linking
<1>0. 0 \in 0..MaxViews /\ links \in [Link -> LinkRow] /\ linking \subseteq Link
  BY PreviewAssumption DEF PreviewTypeOK, LinkRow
<1>1. NoLink \in LinkRow /\ ~NoLink.there
  BY <1>0 DEF NoLink, LinkRow
<1>2. CASE CreateShareLink(l)
  <2> DEFINE made == [NoLink EXCEPT !.there = TRUE, !.active = TRUE]
  <2>1. made \in LinkRow
    BY <1>1 DEF LinkRow
  <2>2. links' = [links EXCEPT ![l] = made] /\ l \in linking /\ linking' = linking \ {l}
    BY <1>2 DEF CreateShareLink
  <2> HIDE DEF made
  <2>3. links' \in [Link -> LinkRow] /\ \A k \in Link \ {l} : links'[k] = links[k]
    BY <1>0, <2>1, <2>2
  <2>4. ActiveLinks' \subseteq ActiveLinks \cup {l}
    BY <2>3 DEF ActiveLinks
  <2> QED
    BY <1>2, <2>2, <2>3, <2>4 DEF CreateShareLink, PreviewTypeOK, LinkRow
<1>3. CASE ValidateShareLink(l)
  <2>1. links'[l] \in LinkRow /\ links' = [links EXCEPT ![l] = links'[l]]
    <3>1. CASE links[l].expired \/ (MaxViews > 0 /\ links[l].views >= MaxViews)
      <4>1. links' = [links EXCEPT ![l].active = FALSE]
        BY <1>3, <3>1 DEF ValidateShareLink
      <4> QED
        BY <1>0, <4>1 DEF LinkRow
    <3>2. CASE ~(links[l].expired \/ (MaxViews > 0 /\ links[l].views >= MaxViews))
      <4> DEFINE seen == IF MaxViews = 0 THEN links[l].views ELSE links[l].views + 1
      <4>1. links' = [links EXCEPT ![l].views = seen]
        BY <1>3, <3>2 DEF ValidateShareLink
      <4>2. links[l].views \in 0..MaxViews
        BY <1>0 DEF LinkRow
      <4>3. seen \in 0..MaxViews
        BY <3>2, <4>2, PreviewAssumption
      <4> HIDE DEF seen
      <4> QED
        BY <1>0, <4>1, <4>3 DEF LinkRow
    <3> QED
      BY <3>1, <3>2
  <2>2. links' \in [Link -> LinkRow] /\ \A k \in Link \ {l} : links'[k] = links[k]
    BY <1>0, <2>1
  <2>3. l \in ActiveLinks
    BY <1>3 DEF ValidateShareLink, ActiveLinks
  <2>4. ActiveLinks' \subseteq ActiveLinks
    BY <2>2, <2>3 DEF ActiveLinks
  <2> QED
    BY <1>3, <2>2, <2>4 DEF ValidateShareLink, PreviewTypeOK, LinkRow
<1>4. CASE RevokeShareLink(l) \/ LinkExpires(l)
  <2>1. links' \in [Link -> LinkRow] /\ \A k \in Link \ {l} : links'[k] = links[k]
    <3>1. \A r \in LinkRow : [r EXCEPT !.active = FALSE] \in LinkRow /\ [r EXCEPT !.expired = TRUE] \in LinkRow
      BY DEF LinkRow
    <3>2. \/ links' = [links EXCEPT ![l] = [links[l] EXCEPT !.active = FALSE]]
          \/ links' = [links EXCEPT ![l] = [links[l] EXCEPT !.expired = TRUE]]
      BY <1>4 DEF RevokeShareLink, LinkExpires
    <3> QED
      BY <1>0, <3>1, <3>2
  <2>2. links'[l].active => links[l].active /\ links'[l].there = links[l].there
    BY <1>0, <1>4 DEF RevokeShareLink, LinkExpires, LinkRow
  <2>3. ActiveLinks' \subseteq ActiveLinks
    BY <2>1, <2>2 DEF ActiveLinks
  <2> QED
    BY <1>4, <2>1, <2>3 DEF RevokeShareLink, LinkExpires, PreviewTypeOK, LinkRow
<1>5. CASE DeleteShareLink(l) \/ CleanupExpiredShareLinks
  <2>1. links' \in [Link -> LinkRow] /\ \A k \in Link : links'[k] \in {links[k], NoLink}
    BY <1>0, <1>1, <1>5 DEF DeleteShareLink, CleanupExpiredShareLinks
  <2>2. ActiveLinks' \subseteq ActiveLinks
    BY <1>1, <2>1 DEF ActiveLinks
  <2> QED
    BY <1>5, <2>1, <2>2 DEF DeleteShareLink, CleanupExpiredShareLinks, PreviewTypeOK, LinkRow
<1> QED
  BY <1>2, <1>3, <1>4, <1>5

LEMMA PreviewStep ==
    ASSUME PreviewInv, [PreviewNext]_previewVars
    PROVE  PreviewInv'
<1>0. PreviewTypeOK /\ DomainInv /\ ShareLinksInv
  BY DEF PreviewInv
<1>1. CASE \/ \E recorded, certified \in BOOLEAN : CreateDomain(recorded, certified)
           \/ \E n \in Name : UpdateDomain(n)
           \/ FindRecord
           \/ \E certified \in BOOLEAN : VerifyCustomDomain(certified)
           \/ BeginDelete
           \/ \E deleted \in BOOLEAN : DeleteRecord(deleted)
           \/ \E deleted \in BOOLEAN : RevokeCertificate(deleted)
  <2>1. /\ PreviewTypeOK' /\ DomainInv' /\ UNCHANGED <<links, linking>>
        /\ mismatch.count => mismatch'.count
        /\ mismatch.link => mismatch'.link
        /\ ~domain'.present => ~domain.present
    BY <1>0, <1>1, DomainSteps
  <2>2. (ActiveLinks \cup linking)' \subseteq ActiveLinks \cup linking
    BY <2>1 DEF ActiveLinks
  <2> QED
    BY <1>0, <2>1, <2>2, FewerLinks DEF PreviewInv
<1>2. CASE DeleteDomain
  <2>1. /\ removing = "entry" /\ domain' = [domain EXCEPT !.present = FALSE] /\ removing' = "no"
        /\ links' = [l \in Link |-> NoLink]
        /\ mismatch' = [mismatch EXCEPT !.link = @ \/ linking # {}]
        /\ UNCHANGED <<provided, linking, verifying>>
    BY <1>2 DEF DeleteDomain
  <2>2. /\ domain' \in DomainRow /\ ~domain'.present /\ domain'.custom = domain.custom
        /\ domain'.status = domain.status /\ domain'.name = domain.name
        /\ domain'.found = domain.found
    BY <1>0, <2>1 DEF PreviewTypeOK, DomainRow
  <2>3. /\ mismatch' \in MismatchRow /\ mismatch'.link = (mismatch.link \/ linking # {})
        /\ mismatch'.name = mismatch.name /\ mismatch'.kept = mismatch.kept
        /\ mismatch'.count = mismatch.count
    BY <1>0, <2>1 DEF PreviewTypeOK, MismatchRow
  <2>4. NoLink \in LinkRow /\ ~NoLink.there
    BY PreviewAssumption DEF NoLink, LinkRow
  <2>5. PreviewTypeOK'
    BY <1>0, <2>1, <2>2, <2>3, <2>4 DEF PreviewTypeOK, DomainRow, MismatchRow, LinkRow
  <2>6. DomainInv'
    BY <1>0, <2>1, <2>2, <2>3 DEF DomainInv
  <2>7. ActiveLinks' = {}
    BY <2>1, <2>4 DEF ActiveLinks
  <2>8. Cardinality(linking) <= Cardinality(ActiveLinks \cup linking) /\ Cardinality(linking) \in Nat
    BY <1>0, LinksFinite, FS_Subset, FS_CardinalityType
  <2>9. (ActiveLinks \cup linking)' = linking
    BY <2>1, <2>7
  <2>10. ShareLinksInv'
    <3>1. Cardinality((ActiveLinks \cup linking)') = Cardinality(linking)
      BY <2>9
    <3>2. mismatch'.count \/ Cardinality(linking) <= MaxLinks
      BY <1>0, <2>3, <2>8, LinksFinite, PreviewAssumption DEF ShareLinksInv
    <3>3. linking # {} => mismatch'.link
      BY <2>3
    <3> QED
      BY <2>9, <3>1, <3>2, <3>3 DEF ShareLinksInv
  <2> QED
    BY <2>5, <2>6, <2>10 DEF PreviewInv
<1>3. ASSUME NEW l \in Link, CheckShareLink(l)
      PROVE  PreviewInv'
  <2>1. /\ domain.present /\ Cardinality(ActiveLinks) < MaxLinks
        /\ linking' = linking \cup {l}
        /\ mismatch' = [mismatch EXCEPT !.count = @ \/ linking # {}]
        /\ UNCHANGED <<domain, provided, links, verifying, removing>>
    BY <1>3 DEF CheckShareLink
  <2>2. /\ mismatch' \in MismatchRow /\ mismatch'.count = (mismatch.count \/ linking # {})
        /\ mismatch'.name = mismatch.name /\ mismatch'.kept = mismatch.kept
    BY <1>0, <2>1 DEF PreviewTypeOK, MismatchRow
  <2>3. PreviewTypeOK'
    BY <1>0, <2>1, <2>2 DEF PreviewTypeOK, MismatchRow
  <2>4. DomainInv'
    BY <1>0, <2>1, <2>2 DEF DomainInv
  <2>5. linking = {} => Cardinality((ActiveLinks \cup linking)') <= MaxLinks
    <3> SUFFICES ASSUME linking = {} PROVE Cardinality((ActiveLinks \cup linking)') <= MaxLinks
      OBVIOUS
    <3>1. (ActiveLinks \cup linking)' = ActiveLinks \cup {l}
      BY <2>1 DEF ActiveLinks
    <3>2. Cardinality(ActiveLinks \cup {l}) \in {Cardinality(ActiveLinks), Cardinality(ActiveLinks) + 1}
      BY <1>0, LinksFinite, FS_AddElement
    <3> QED
      BY <1>0, <2>1, <3>1, <3>2, LinksFinite, PreviewAssumption
  <2> QED
    BY <1>0, <2>1, <2>2, <2>3, <2>4, <2>5 DEF PreviewInv, ShareLinksInv
<1>4. ASSUME NEW l \in Link,
             \/ CreateShareLink(l) \/ ValidateShareLink(l) \/ RevokeShareLink(l)
             \/ DeleteShareLink(l) \/ LinkExpires(l) \/ CleanupExpiredShareLinks
      PROVE  PreviewInv'
  <2>1. /\ PreviewTypeOK' /\ UNCHANGED <<domain, provided, verifying, removing, mismatch>>
        /\ (ActiveLinks \cup linking)' \subseteq ActiveLinks \cup linking
    BY <1>0, <1>4, LinkSteps
  <2>2. DomainInv'
    BY <1>0, <2>1 DEF DomainInv
  <2> QED
    BY <1>0, <2>1, <2>2, FewerLinks DEF PreviewInv
<1>5. CASE UNCHANGED previewVars
  BY <1>5 DEF previewVars, PreviewInv, PreviewTypeOK, DomainInv, ShareLinksInv, ActiveLinks
<1>6. CASE CleanupExpiredShareLinks
  BY <1>4, <1>6 DEF CleanupExpiredShareLinks
<1> QED
  BY <1>1, <1>2, <1>3, <1>4, <1>5, <1>6 DEF PreviewNext

LEMMA PreviewGood ==
    PreviewInv => PreviewTypeOK /\ NothingOutlivesDomain /\ PreviewIsAuthorised
<1> SUFFICES ASSUME PreviewInv PROVE NothingOutlivesDomain /\ PreviewIsAuthorised
  BY DEF PreviewInv
<1>1. Cardinality(ActiveLinks) <= MaxLinks \/ mismatch.count
  BY LinksFinite, PreviewAssumption DEF PreviewInv, ShareLinksInv
<1> QED
  BY <1>1 DEF PreviewInv, DomainInv, ShareLinksInv, NothingOutlivesDomain, PreviewIsAuthorised

-----------------------------------------------------------------------------
(* Adjustments.  What requests that have been checked ask for, together with *)
(* the usage, stays in its bound; with one request at most for each pod, the *)
(* usage is what the pods have more than at first, where a pod counts with   *)
(* what it had when the request that is changing it read it.                 *)

AdjustingRow == [at : AdjustPlace, pod : Pod \cup {NoPod}, old : 0..TopCpu, new : 0..TopCpu,
                 version : Nat]

\* What a request that was checked asks for in addition.
Asked(c) == IF adjust[c].at \in AdjustPlace \ {"idle", "check"} /\ Delta(c) > 0
            THEN Delta(c) ELSE 0

Asking == [c \in AdjustCaller |-> Asked(c)]

\* What a pod counts with: what the request that is adjusting it has read, or what it has.
SettledOf(requests, pods, e) ==
    IF \E c \in AdjustCaller : requests[c].pod = e
    THEN requests[CHOOSE c \in AdjustCaller : requests[c].pod = e].old ELSE pods[e]

Settled(e) == SettledOf(adjust, cpu, e)

Alone(requests) == \A c, d \in AdjustCaller :
    requests[c].pod \in Pod /\ requests[d].pod = requests[c].pod => c = d

Charged == [e \in Pod |-> Settled(e) - InitialCpu]

AdjustRowsInv ==
    /\ adjust \in [AdjustCaller -> AdjustingRow]
    /\ \A c \in AdjustCaller : adjust[c].at = "idle" => adjust[c] = NoAdjustment
    /\ \A c \in AdjustCaller : adjust[c].at # "idle" =>
           adjust[c].pod \in Pod /\ adjust[c].old \in 1..TopCpu /\ adjust[c].new \in 1..TopCpu

AloneInv == adjustedTwice = {} =>
    /\ Alone(adjust)
    /\ \A c \in AdjustCaller :
           /\ adjust[c].at \in {"check", "update", "delete"} => cpu[adjust[c].pod] = adjust[c].old
           /\ adjust[c].at = "create" => cpu[adjust[c].pod] = 0
           /\ adjust[c].at = "count" => cpu[adjust[c].pod] = adjust[c].new

ChargedInv == adjustedTwice \cup podLost = {} => counted = SumFunctionOnSet(Charged, Pod)

OvershootInv ==
    counted + SumFunctionOnSet(Asking, AdjustCaller)
        <= QuotaCpu + (Cardinality(AdjustCaller) - 1) * (TopCpu - 1)

AdjustInv ==
    /\ cpu \in [Pod -> 0..TopCpu]
    /\ podWrites \in [Pod -> Nat]
    /\ hasRecord \in BOOLEAN /\ counted \in Int
    /\ begun \in 0..MaxAdjustments
    /\ podLost \subseteq Pod /\ adjustedTwice \subseteq Pod
    /\ AdjustRowsInv /\ AloneInv /\ ChargedInv /\ OvershootInv /\ PodIsMadeAgain

LEMMA AdjustingTyped ==
    ASSUME AdjustRowsInv
    PROVE  \A c \in AdjustCaller :
               /\ adjust[c].old \in 0..TopCpu /\ adjust[c].new \in 0..TopCpu
               /\ Delta(c) \in Int /\ Delta(c) <= TopCpu - 1
               /\ Asked(c) \in Int /\ 0 <= Asked(c) /\ Asked(c) <= TopCpu - 1
               /\ Asking[c] = Asked(c)
<1> SUFFICES ASSUME NEW c \in AdjustCaller
             PROVE  /\ adjust[c].old \in 0..TopCpu /\ adjust[c].new \in 0..TopCpu
                    /\ Delta(c) \in Int /\ Delta(c) <= TopCpu - 1
                    /\ Asked(c) \in Int /\ 0 <= Asked(c) /\ Asked(c) <= TopCpu - 1
                    /\ Asking[c] = Asked(c)
  OBVIOUS
<1>1. adjust[c].old \in 0..TopCpu /\ adjust[c].new \in 0..TopCpu
  BY DEF AdjustRowsInv, AdjustingRow
<1>2. adjust[c].at = "idle" => adjust[c].old = 0 /\ adjust[c].new = 0
  BY DEF AdjustRowsInv, NoAdjustment
<1>3. adjust[c].at # "idle" => adjust[c].old \in 1..TopCpu
  BY DEF AdjustRowsInv
<1>4. Delta(c) \in Int /\ Delta(c) <= TopCpu - 1
  BY <1>1, <1>2, <1>3, AdjustmentAssumption DEF Delta
<1>5. Asked(c) \in Int /\ 0 <= Asked(c) /\ Asked(c) <= TopCpu - 1
  BY <1>4, AdjustmentAssumption DEF Asked
<1> QED
  BY <1>1, <1>4, <1>5 DEF Asking

LEMMA AdjustStart == AdjustInit => AdjustInv
<1> SUFFICES ASSUME AdjustInit PROVE AdjustInv
  OBVIOUS
<1> USE AdjustmentAssumption
<1>1. /\ NoAdjustment \in AdjustingRow /\ NoAdjustment.at = "idle" /\ NoAdjustment.pod = NoPod
      /\ NoAdjustment.old = 0 /\ NoAdjustment.new = 0
  BY DEF NoAdjustment, AdjustingRow, AdjustPlace
<1>2. \A c \in AdjustCaller : adjust[c] = NoAdjustment
  BY DEF AdjustInit
<1>3. AdjustRowsInv
  BY <1>1, <1>2 DEF AdjustInit, AdjustRowsInv
<1>4. AloneInv
  <2>1. Alone(adjust)
    BY <1>1, <1>2, AdjustmentAssumption DEF Alone
  <2> QED
    BY <1>1, <1>2, <2>1 DEF AloneInv
<1>5. ChargedInv
  <2>1. \A e \in Pod : Charged[e] = 0
    BY <1>1, <1>2 DEF Charged, Settled, SettledOf, AdjustInit
  <2>2. /\ SumFunctionOnSet(Charged, Pod) <= Cardinality(Pod) * 0
        /\ SumFunctionOnSet(Charged, Pod) \in Int
    BY <2>1, SumAtMost, SumTyped
  <2>3. SumFunctionOnSet(Charged, {}) <= SumFunctionOnSet(Charged, Pod)
    BY <2>1, SumBelow
  <2>4. Cardinality(Pod) * 0 = 0
    BY FS_CardinalityType
  <2> QED
    BY <2>2, <2>3, <2>4, SumBegins DEF ChargedInv, AdjustInit
<1>6. OvershootInv
  <2>1. \A c \in AdjustCaller : Asking[c] = 0
    BY <1>1, <1>2 DEF Asking, Asked
  <2>2. /\ SumFunctionOnSet(Asking, AdjustCaller) <= Cardinality(AdjustCaller) * 0
        /\ SumFunctionOnSet(Asking, AdjustCaller) \in Int
    BY <2>1, SumAtMost, SumTyped
  <2>3. Cardinality(AdjustCaller) \in Nat /\ Cardinality(AdjustCaller) # 0
    BY FS_CardinalityType, FS_EmptySet
  <2>4. (Cardinality(AdjustCaller) - 1) * (TopCpu - 1) >= 0
        /\ (Cardinality(AdjustCaller) - 1) * (TopCpu - 1) \in Int
    <3>1. \A m, k \in Nat : m * k >= 0 /\ m * k \in Int
      OBVIOUS
    <3>2. Cardinality(AdjustCaller) - 1 \in Nat /\ TopCpu - 1 \in Nat
      BY <2>3
    <3> QED
      BY <3>1, <3>2
  <2>5. Cardinality(AdjustCaller) * 0 = 0
    BY <2>3
  <2>6. counted = 0
    BY DEF AdjustInit
  <2> HIDE DEF Asking
  <2> QED
    BY <2>2, <2>4, <2>5, <2>6 DEF OvershootInv
<1>7. PodIsMadeAgain
  BY DEF AdjustInit, PodIsMadeAgain
<1> QED
  BY <1>3, <1>4, <1>5, <1>6, <1>7 DEF AdjustInit, AdjustInv

\* With no two requests for a pod, the one there is decides.
LEMMA SettledIs ==
    ASSUME NEW requests, NEW pods, Alone(requests), NEW e \in Pod
    PROVE  /\ \A c \in AdjustCaller : requests[c].pod = e => SettledOf(requests, pods, e) = requests[c].old
           /\ (\A c \in AdjustCaller : requests[c].pod # e) => SettledOf(requests, pods, e) = pods[e]
<1>1. ASSUME NEW c \in AdjustCaller, requests[c].pod = e
      PROVE  SettledOf(requests, pods, e) = requests[c].old
  <2> DEFINE d == CHOOSE d \in AdjustCaller : requests[d].pod = e
  <2>1. d \in AdjustCaller /\ requests[d].pod = e
    BY <1>1
  <2>2. SettledOf(requests, pods, e) = requests[d].old
    BY <1>1 DEF SettledOf
  <2> HIDE DEF d
  <2>3. d = c
    BY <1>1, <2>1 DEF Alone
  <2> QED
    BY <2>2, <2>3
<1> QED
  BY <1>1 DEF SettledOf

LEMMA SettledAgrees ==
    ASSUME NEW a, NEW b, NEW p, NEW q, Alone(a), Alone(b), NEW e \in Pod, p[e] = q[e],
           \A c \in AdjustCaller : a[c].pod = e \/ b[c].pod = e => a[c] = b[c]
    PROVE  SettledOf(a, p, e) = SettledOf(b, q, e)
<1>1. CASE \E c \in AdjustCaller : a[c].pod = e
  <2>1. PICK c \in AdjustCaller : a[c].pod = e /\ b[c].pod = e /\ a[c] = b[c]
    BY <1>1
  <2>2. SettledOf(a, p, e) = a[c].old
    BY <2>1, SettledIs
  <2>3. SettledOf(b, q, e) = b[c].old
    BY <2>1, SettledIs
  <2> QED
    BY <2>1, <2>2, <2>3
<1>2. CASE \A c \in AdjustCaller : a[c].pod # e
  <2>1. \A c \in AdjustCaller : b[c].pod # e
    BY <1>2
  <2>2. SettledOf(a, p, e) = p[e]
    BY <1>2, SettledIs
  <2>3. SettledOf(b, q, e) = q[e]
    BY <2>1, SettledIs
  <2> QED
    BY <2>2, <2>3
<1> QED
  BY <1>1, <1>2

LEMMA SettledTyped ==
    ASSUME AdjustInv, adjustedTwice = {}
    PROVE  \A e \in Pod : Settled(e) \in Int /\ Charged[e] \in Int /\ Charged[e] = Settled(e) - InitialCpu
<1> SUFFICES ASSUME NEW e \in Pod PROVE Settled(e) \in Int
  BY AdjustmentAssumption DEF Charged
<1>1. Alone(adjust)
  BY DEF AdjustInv, AloneInv
<1>2. cpu[e] \in Int /\ \A c \in AdjustCaller : adjust[c].old \in Int
  BY AdjustmentAssumption DEF AdjustInv, AdjustRowsInv, AdjustingRow
<1>3. CASE \E c \in AdjustCaller : adjust[c].pod = e
  <2>1. PICK c \in AdjustCaller : adjust[c].pod = e
    BY <1>3
  <2>2. Settled(e) = adjust[c].old
    BY <1>1, <2>1, SettledIs DEF Settled
  <2> QED
    BY <1>2, <2>2
<1>4. CASE \A c \in AdjustCaller : adjust[c].pod # e
  <2>1. Settled(e) = cpu[e]
    BY <1>1, <1>4, SettledIs DEF Settled
  <2> QED
    BY <1>2, <2>1
<1> QED
  BY <1>3, <1>4

\* A request is at another place, for the same pod; or has ended.
GoesOn(c, place) ==
    /\ adjust'[c].at = place /\ adjust'[c].pod = adjust[c].pod
    /\ adjust'[c].old = adjust[c].old /\ adjust'[c].new = adjust[c].new

LEMMA AdjustMoves ==
    ASSUME AdjustRowsInv, NEW c \in AdjustCaller, adjust[c].at # "idle"
    PROVE  /\ \A place \in AdjustPlace \ {"idle"} : Goes(c, place) =>
                 /\ AdjustRowsInv' /\ GoesOn(c, place)
                 /\ \A d \in AdjustCaller : d # c => adjust'[d] = adjust[d]
           /\ GivesUp(c) =>
                 /\ AdjustRowsInv' /\ adjust'[c] = NoAdjustment
                 /\ \A d \in AdjustCaller : d # c => adjust'[d] = adjust[d]
           /\ NoAdjustment.at = "idle" /\ NoAdjustment.pod = NoPod
<1>1. ASSUME NEW place \in AdjustPlace \ {"idle"}, Goes(c, place)
      PROVE  /\ AdjustRowsInv' /\ GoesOn(c, place)
             /\ \A d \in AdjustCaller : d # c => adjust'[d] = adjust[d]
  <2> DEFINE row == [adjust[c] EXCEPT !.at = place]
  <2>1. adjust[c] \in AdjustingRow
    BY DEF AdjustRowsInv
  <2>2. /\ row \in AdjustingRow /\ row.at = place /\ row.pod = adjust[c].pod
        /\ row.old = adjust[c].old /\ row.new = adjust[c].new
    BY <2>1 DEF AdjustingRow
  <2>3. adjust' = [adjust EXCEPT ![c] = row]
    BY <1>1 DEF Goes
  <2> HIDE DEF row
  <2>4. /\ adjust' \in [AdjustCaller -> AdjustingRow] /\ adjust'[c] = row
        /\ \A d \in AdjustCaller : d # c => adjust'[d] = adjust[d]
    BY <2>2, <2>3 DEF AdjustRowsInv
  <2> QED
    BY <2>2, <2>4 DEF AdjustRowsInv, GoesOn
<1>2. ASSUME GivesUp(c)
      PROVE  /\ AdjustRowsInv' /\ adjust'[c] = NoAdjustment
             /\ \A d \in AdjustCaller : d # c => adjust'[d] = adjust[d]
  <2>1. NoAdjustment \in AdjustingRow /\ NoAdjustment.at = "idle"
    BY AdjustmentAssumption DEF NoAdjustment, AdjustingRow, AdjustPlace
  <2> QED
    BY <1>2, <2>1 DEF GivesUp, AdjustRowsInv
<1> QED
  BY <1>1, <1>2 DEF NoAdjustment

\* One request asks for something else, or the usage changes.
LEMMA OvershootKept ==
    ASSUME AdjustInv, AdjustRowsInv', NEW c \in AdjustCaller, counted' \in Int,
           \A d \in AdjustCaller : d # c => adjust'[d] = adjust[d],
           \/ counted' + Asked(c)' <= counted + Asked(c)
           \/ Asked(c) = 0 /\ counted' + Asked(c)' <= QuotaCpu
    PROVE  OvershootInv'
<1> DEFINE T == AdjustCaller
           n == Cardinality(AdjustCaller)
<1>0. PICK f, g : f = Asking /\ g = Asking'
  OBVIOUS
<1>1. /\ \A d \in T : f[d] = Asked(d) /\ f[d] \in Int /\ f[d] <= TopCpu - 1 /\ 0 <= f[d]
      /\ \A d \in T : g[d] = Asked(d)' /\ g[d] \in Int
  <2>1. \A d \in T : f[d] = Asked(d) /\ f[d] \in Int /\ f[d] <= TopCpu - 1 /\ 0 <= f[d]
    BY <1>0, AdjustingTyped DEF AdjustInv
  <2>2. \A d \in T : g[d] = Asked(d)' /\ g[d] \in Int
    <3> SUFFICES ASSUME NEW d \in T PROVE g[d] = Asked(d)' /\ g[d] \in Int
      OBVIOUS
    <3>1. adjust'[d].old \in Int /\ adjust'[d].new \in Int
      BY AdjustmentAssumption DEF AdjustRowsInv, AdjustingRow
    <3> QED
      BY <1>0, <3>1 DEF Asking, Asked, Delta
  <2> QED
    BY <2>1, <2>2
<1>2. \A d \in T : d # c => g[d] = f[d]
  BY <1>1 DEF Asked, Delta
<1>3. IsFiniteSet(T) /\ n \in Nat /\ T # {} /\ n # 0
  BY AdjustmentAssumption, FS_CardinalityType, FS_EmptySet
<1>4. PICK r \in Int : /\ r = SumFunctionOnSet(f, T \ {c})
                       /\ SumFunctionOnSet(f, T) = f[c] + r
                       /\ SumFunctionOnSet(g, T) = g[c] + r
  BY <1>1, <1>2, <1>3, SumChanges
<1>5. r <= (n - 1) * (TopCpu - 1)
  <2>1. IsFiniteSet(T \ {c}) /\ Cardinality(T \ {c}) = n - 1
    BY <1>3, FS_RemoveElement
  <2>2. TopCpu - 1 \in Nat
    BY AdjustmentAssumption
  <2>3. SumFunctionOnSet(f, T \ {c}) <= Cardinality(T \ {c}) * (TopCpu - 1)
    BY <1>1, <2>1, <2>2, SumAtMost
  <2> QED
    BY <1>4, <2>1, <2>3
<1>6. (n - 1) * (TopCpu - 1) \in Int
  <2>1. n - 1 \in Int /\ TopCpu - 1 \in Int
    BY <1>3, AdjustmentAssumption
  <2> QED
    BY <2>1
<1>7. counted \in Int /\ QuotaCpu \in Int /\ counted + SumFunctionOnSet(f, T) <= QuotaCpu + (n - 1) * (TopCpu - 1)
  BY <1>0, AdjustmentAssumption DEF AdjustInv, OvershootInv
<1>8. f[c] = Asked(c) /\ g[c] = Asked(c)' /\ f[c] \in Int /\ g[c] \in Int
  BY <1>1
<1>9. counted' + SumFunctionOnSet(g, T) <= QuotaCpu + (n - 1) * (TopCpu - 1)
  <2> DEFINE B == (n - 1) * (TopCpu - 1)
  <2>1. /\ r \in Int /\ r <= B /\ B \in Int /\ counted + (f[c] + r) <= QuotaCpu + B
        /\ SumFunctionOnSet(g, T) = g[c] + r
    BY <1>4, <1>5, <1>6, <1>7
  <2> HIDE DEF B
  <2>2. counted' + (g[c] + r) <= QuotaCpu + B
    BY <1>7, <1>8, <2>1
  <2> QED
    BY <2>1, <2>2 DEF B
<1> QED
  BY <1>0, <1>9 DEF OvershootInv

\* What one pod counts with changes as the usage does.
LEMMA ChargedKept ==
    ASSUME AdjustInv, NEW e \in Pod, counted' \in Int,
           adjustedTwice = {}, podLost = {},
           Settled(e)' \in Int,
           \A g \in Pod : g # e => Settled(g)' = Settled(g),
           counted' = counted + (Settled(e)' - Settled(e))
    PROVE  counted' = SumFunctionOnSet(Charged', Pod)
<1>1. /\ \A g \in Pod : Charged[g] \in Int /\ Charged[g] = Settled(g) - InitialCpu /\ Settled(g) \in Int
      /\ \A g \in Pod : Charged'[g] \in Int /\ Charged'[g] = Settled(g)' - InitialCpu
  <2>1. \A g \in Pod : Charged'[g] = Settled(g)' - InitialCpu
    BY DEF Charged
  <2>2. \A g \in Pod : Charged[g] \in Int /\ Charged[g] = Settled(g) - InitialCpu /\ Settled(g) \in Int
    BY SettledTyped
  <2>3. \A g \in Pod : Settled(g)' \in Int
    BY <2>2
  <2> QED
    BY <2>1, <2>2, <2>3, AdjustmentAssumption
<1>2. \A g \in Pod : g # e => Charged'[g] = Charged[g]
  BY <1>1
<1>3. \E r \in Int : /\ SumFunctionOnSet(Charged, Pod) = Charged[e] + r
                     /\ SumFunctionOnSet(Charged', Pod) = Charged'[e] + r
  <2>0. PICK f, g : f = Charged /\ g = Charged'
    OBVIOUS
  <2>1. /\ \A x \in Pod : f[x] \in Int /\ g[x] \in Int
        /\ \A x \in Pod : x # e => g[x] = f[x]
    BY <1>1, <1>2, <2>0
  <2>2. IsFiniteSet(Pod)
    BY AdjustmentAssumption
  <2>3. \E r \in Int : /\ r = SumFunctionOnSet(f, Pod \ {e})
                       /\ SumFunctionOnSet(f, Pod) = f[e] + r
                       /\ SumFunctionOnSet(g, Pod) = g[e] + r
    BY <2>1, <2>2, SumChanges
  <2> QED
    BY <2>0, <2>3
<1>4. counted = SumFunctionOnSet(Charged, Pod) /\ counted \in Int
  BY DEF AdjustInv, ChargedInv
<1>5. Charged'[e] - Charged[e] = Settled(e)' - Settled(e)
  BY <1>1, AdjustmentAssumption
<1> QED
  BY <1>1, <1>3, <1>4, <1>5

\* A request that is done or gives up no longer stands for its pod, which counts with
\* what it has from then on; one that goes on does.
LEMMA ChargedMoves ==
    ASSUME AdjustInv, NEW c \in AdjustCaller, adjust[c].at # "idle", counted' \in Int,
           adjustedTwice = {}, podLost = {}, NEW v \in 0..TopCpu,
           \A d \in AdjustCaller : d # c => adjust'[d] = adjust[d],
           \A g \in Pod : g # adjust[c].pod => cpu'[g] = cpu[g],
           \/ /\ adjust'[c].pod = adjust[c].pod /\ adjust'[c].old = adjust[c].old
              /\ counted' = counted
           \/ /\ adjust'[c].pod = NoPod /\ cpu'[adjust[c].pod] = v
              /\ counted' = counted + (v - adjust[c].old)
    PROVE  Alone(adjust)' /\ counted' = SumFunctionOnSet(Charged', Pod)
<1>0. PICK e : e = adjust[c].pod
  OBVIOUS
<1>1. e \in Pod /\ adjust[c].old \in Int /\ v \in Int
  BY <1>0, AdjustmentAssumption DEF AdjustInv, AdjustRowsInv
<1>2. Alone(adjust)
  BY <1>0 DEF AdjustInv, AloneInv
<1>3. Alone(adjust')
  BY <1>0, <1>2, AdjustmentAssumption DEF Alone
<1>4. Settled(e) = adjust[c].old
  BY <1>0, <1>1, <1>2, SettledIs DEF Settled
<1>5. Settled(e)' = IF adjust'[c].pod = e THEN adjust[c].old ELSE v
  <2>1. CASE adjust'[c].pod = e
    <3>1. SettledOf(adjust', cpu', e) = adjust'[c].old /\ adjust'[c].old = adjust[c].old
      BY <1>0, <1>1, <1>3, <2>1, SettledIs, AdjustmentAssumption, SMTT(30)
    <3> QED
      BY <1>0, <2>1, <3>1 DEF Settled
  <2>2. CASE adjust'[c].pod # e
    <3>1. \A d \in AdjustCaller : adjust'[d].pod # e
      BY <1>0, <1>1, <1>2, <2>2 DEF Alone
    <3>2. SettledOf(adjust', cpu', e) = cpu'[e] /\ cpu'[e] = v
      BY <1>0, <1>1, <1>3, <2>2, <3>1, SettledIs
    <3> QED
      BY <1>0, <2>2, <3>2 DEF Settled
  <2> QED
    BY <1>0, <2>1, <2>2
<1>6. \A g \in Pod : g # e => Settled(g)' = Settled(g)
  <2> SUFFICES ASSUME NEW g \in Pod, g # e
               PROVE  SettledOf(adjust', cpu', g) = SettledOf(adjust, cpu, g)
    BY DEF Settled
  <2>1. \A d \in AdjustCaller : adjust'[d].pod = g \/ adjust[d].pod = g => adjust'[d] = adjust[d]
    BY <1>0, AdjustmentAssumption
  <2>2. cpu'[g] = cpu[g]
    BY <1>0
  <2> QED
    BY <1>2, <1>3, <2>1, <2>2, SettledAgrees
<1>7. Settled(e)' \in Int /\ counted' = counted + (Settled(e)' - Settled(e))
  <2>1. counted \in Int
    BY <1>0 DEF AdjustInv
  <2>2. CASE adjust'[c].pod = e
    <3>1. counted' = counted
      BY <1>0, <1>1, <2>2, AdjustmentAssumption
    <3> QED
      BY <1>0, <1>1, <1>4, <1>5, <2>1, <2>2, <3>1
  <2>3. CASE adjust'[c].pod # e
    <3>1. counted' = counted + (v - adjust[c].old)
      BY <1>0, <2>3
    <3> QED
      BY <1>0, <1>1, <1>4, <1>5, <2>1, <2>3, <3>1
  <2> QED
    BY <1>0, <2>2, <2>3
<1>8. counted' = SumFunctionOnSet(Charged', Pod)
  BY <1>0, <1>1, <1>6, <1>7, ChargedKept
<1> QED
  BY <1>0, <1>3, <1>8

\* A request goes on to its next call.
LEMMA GoesOnStep ==
    ASSUME AdjustInv, NEW c \in AdjustCaller, adjust[c].at # "idle",
           NEW place \in {"update", "delete", "create", "count"}, Goes(c, place),
           NEW v \in 0..TopCpu, cpu' = [cpu EXCEPT ![adjust[c].pod] = v],
           podWrites' \in [Pod -> Nat],
           UNCHANGED <<hasRecord, counted, begun, podLost, adjustedTwice>>,
           adjustedTwice = {} =>
               v = CASE place = "create" -> 0 [] place = "count" -> adjust[c].new
                     [] OTHER -> adjust[c].old,
           v = 0 => \/ place = "create"
                    \/ cpu[adjust[c].pod] = 0 /\ adjust[c].at # "create",
           \/ adjust[c].at # "check" \/ Delta(c) <= 0
           \/ counted + Delta(c) <= QuotaCpu
    PROVE  AdjustInv'
<1>0. PICK e : e = adjust[c].pod
  OBVIOUS
<1>1. e \in Pod /\ adjust[c].old \in 1..TopCpu /\ adjust[c].new \in 1..TopCpu
  BY <1>0 DEF AdjustInv, AdjustRowsInv
<1>2. /\ AdjustRowsInv' /\ GoesOn(c, place)
      /\ \A d \in AdjustCaller : d # c => adjust'[d] = adjust[d]
  BY AdjustMoves DEF AdjustInv, AdjustPlace
<1>3. /\ cpu' \in [Pod -> 0..TopCpu] /\ cpu'[e] = v
      /\ \A g \in Pod : g # e => cpu'[g] = cpu[g]
  BY <1>0, <1>1 DEF AdjustInv
<1>4. Delta(c)' = Delta(c)
  BY <1>2 DEF Delta, GoesOn
<1>5. OvershootInv'
  <2>1. Asked(c)' = IF Delta(c) > 0 THEN Delta(c) ELSE 0
    BY <1>2, <1>4 DEF Asked, GoesOn, AdjustPlace
  <2>2. Delta(c) \in Int /\ counted \in Int
    BY AdjustingTyped DEF AdjustInv
  <2>3. adjust[c].at \in AdjustPlace
    BY DEF AdjustInv, AdjustRowsInv, AdjustingRow
  <2>4. CASE adjust[c].at # "check"
    <3>1. Asked(c)' = Asked(c)
      BY <2>1, <2>3, <2>4 DEF Asked, AdjustPlace
    <3>2. Asked(c) \in Int
      BY AdjustingTyped DEF AdjustInv
    <3> QED
      BY <1>2, <2>2, <3>1, <3>2, OvershootKept
  <2>5. CASE adjust[c].at = "check"
    <3>1. Asked(c) = 0
      BY <2>5 DEF Asked
    <3>2. Asked(c)' = 0 \/ (counted' + Asked(c)' <= QuotaCpu)
      BY <2>1, <2>2, <2>5
    <3> QED
      BY <1>2, <2>2, <3>1, <3>2, OvershootKept
  <2> QED
    BY <2>4, <2>5
<1>6. ASSUME adjustedTwice = {}, podLost = {}
      PROVE  counted' = SumFunctionOnSet(Charged', Pod)
  <2>1. counted' \in Int /\ counted' = counted
    BY DEF AdjustInv
  <2> QED
    BY <1>0, <1>2, <1>3, <1>6, <2>1, ChargedMoves DEF GoesOn
<1>7. AloneInv'
  <2> SUFFICES ASSUME adjustedTwice = {} PROVE AloneInv'
    BY DEF AloneInv
  <2>1. Alone(adjust)
    BY DEF AdjustInv, AloneInv
  <2>2. Alone(adjust')
    BY <1>2, <2>1 DEF Alone, GoesOn
  <2>3. ASSUME NEW d \in AdjustCaller, d # c, adjust[d].at # "idle"
        PROVE  adjust'[d] = adjust[d] /\ cpu'[adjust[d].pod] = cpu[adjust[d].pod]
    <3>1. adjust[d].pod \in Pod /\ adjust[d].pod # e
      BY <1>0, <1>1, <2>1, <2>3 DEF AdjustInv, AdjustRowsInv, Alone
    <3> QED
      BY <1>2, <1>3, <2>3, <3>1
  <2>4. ASSUME NEW d \in AdjustCaller
        PROVE  /\ adjust'[d].at \in {"check", "update", "delete"} => cpu'[adjust'[d].pod] = adjust'[d].old
               /\ adjust'[d].at = "create" => cpu'[adjust'[d].pod] = 0
               /\ adjust'[d].at = "count" => cpu'[adjust'[d].pod] = adjust'[d].new
    <3>1. CASE d = c
      <4>1. v = CASE place = "create" -> 0 [] place = "count" -> adjust[c].new
                     [] OTHER -> adjust[c].old
        OBVIOUS
      <4> QED
        BY <1>0, <1>2, <1>3, <3>1, <4>1 DEF GoesOn
    <3>2. CASE d # c
      BY <1>2, <2>3, <3>2 DEF AdjustInv, AloneInv
    <3> QED
      BY <3>1, <3>2
  <2> QED
    BY <2>2, <2>4 DEF AloneInv
<1>8. PodIsMadeAgain'
  <2> SUFFICES ASSUME NEW g \in Pod, cpu'[g] = 0, g \notin podLost'
               PROVE  \E d \in AdjustCaller : adjust'[d].pod = g /\ adjust'[d].at = "create"
    BY DEF PodIsMadeAgain
  <2>1. CASE g = e /\ place = "create"
    BY <1>0, <1>2, <2>1 DEF GoesOn
  <2>2. CASE ~(g = e /\ place = "create")
    <3>1. cpu[g] = 0 /\ (g = e => adjust[c].at # "create")
      BY <1>0, <1>3, <2>2
    <3>2. PICK d \in AdjustCaller : adjust[d].pod = g /\ adjust[d].at = "create"
      BY <3>1 DEF AdjustInv, PodIsMadeAgain
    <3>3. d # c
      BY <1>0, <3>1, <3>2
    <3> QED
      BY <1>2, <3>2, <3>3
  <2> QED
    BY <2>1, <2>2
<1> QED
  BY <1>2, <1>3, <1>5, <1>6, <1>7, <1>8 DEF AdjustInv, ChargedInv

\* A request ends: it is counted, gives up, or fails and leaves its pod as it is.
LEMMA EndsAdjusting ==
    ASSUME AdjustInv, NEW c \in AdjustCaller, adjust[c].at # "idle", GivesUp(c),
           UNCHANGED <<cpu, podWrites, begun, adjustedTwice>>,
           hasRecord' \in BOOLEAN, podLost \subseteq podLost', podLost' \subseteq Pod,
           adjust[c].at = "create" /\ cpu[adjust[c].pod] = 0 => adjust[c].pod \in podLost',
           \/ counted' = counted /\ adjust[c].at # "count"
           \/ counted' = counted + Delta(c) /\ adjust[c].at = "count"
    PROVE  AdjustInv'
<1>0. PICK e : e = adjust[c].pod
  OBVIOUS
<1>1. e \in Pod /\ adjust[c].old \in 1..TopCpu /\ adjust[c].new \in 1..TopCpu
  BY <1>0 DEF AdjustInv, AdjustRowsInv
<1>2. /\ AdjustRowsInv' /\ adjust'[c] = NoAdjustment
      /\ \A d \in AdjustCaller : d # c => adjust'[d] = adjust[d]
      /\ NoAdjustment.at = "idle" /\ NoAdjustment.pod = NoPod
  BY AdjustMoves DEF AdjustInv
<1>3. /\ Delta(c) \in Int /\ Delta(c) = adjust[c].new - adjust[c].old /\ counted \in Int
      /\ counted' \in Int /\ Asked(c) \in Int /\ 0 <= Asked(c)
  BY AdjustingTyped DEF AdjustInv, Delta
<1>4. OvershootInv'
  <2>1. Asked(c)' = 0
    BY <1>2 DEF Asked
  <2>2. adjust[c].at = "count" => Delta(c) <= Asked(c)
    BY <1>3 DEF Asked, AdjustPlace
  <2>3. counted' + Asked(c)' <= counted + Asked(c)
    BY <1>3, <2>1, <2>2
  <2> QED
    BY <1>2, <1>3, <2>3, OvershootKept
<1>5. ASSUME adjustedTwice = {}, podLost' = {}
      PROVE  counted' = SumFunctionOnSet(Charged', Pod)
  <2>1. podLost = {} /\ cpu[e] \in 0..TopCpu
    BY <1>1, <1>5 DEF AdjustInv
  <2>2. counted' = counted + (cpu[e] - adjust[c].old)
    <3>1. adjust[c].at \in {"check", "update", "delete", "create", "count"}
      BY DEF AdjustInv, AdjustRowsInv, AdjustingRow, AdjustPlace
    <3>2. adjust[c].at # "create"
      BY <1>0, <1>5 DEF AdjustInv, AloneInv
    <3>3. CASE adjust[c].at = "count"
      <4>1. cpu[e] = adjust[c].new
        BY <1>0, <1>5, <3>3 DEF AdjustInv, AloneInv
      <4> QED
        BY <1>3, <3>3, <4>1
    <3>4. CASE adjust[c].at \in {"check", "update", "delete"}
      <4>1. cpu[e] = adjust[c].old
        BY <1>0, <1>5, <3>4 DEF AdjustInv, AloneInv
      <4> QED
        BY <1>1, <1>3, <3>4, <4>1
    <3> QED
      BY <3>1, <3>2, <3>3, <3>4
  <2>3. \A g \in Pod : cpu'[g] = cpu[g]
    OBVIOUS
  <2>4. adjust'[c].pod = NoPod
    BY <1>2
  <2> QED
    BY <1>0, <1>1, <1>2, <1>3, <1>5, <2>1, <2>2, <2>3, <2>4, ChargedMoves
<1>6. AloneInv'
  <2> SUFFICES ASSUME adjustedTwice = {} PROVE AloneInv'
    BY DEF AloneInv
  <2>1. Alone(adjust)
    BY DEF AdjustInv, AloneInv
  <2>2. Alone(adjust')
    BY <1>2, <2>1, AdjustmentAssumption DEF Alone
  <2>3. ASSUME NEW d \in AdjustCaller
        PROVE  /\ adjust'[d].at \in {"check", "update", "delete"} => cpu'[adjust'[d].pod] = adjust'[d].old
               /\ adjust'[d].at = "create" => cpu'[adjust'[d].pod] = 0
               /\ adjust'[d].at = "count" => cpu'[adjust'[d].pod] = adjust'[d].new
    BY <1>2 DEF AdjustInv, AloneInv
  <2> QED
    BY <2>2, <2>3 DEF AloneInv
<1>7. PodIsMadeAgain'
  <2> SUFFICES ASSUME NEW g \in Pod, cpu'[g] = 0, g \notin podLost'
               PROVE  \E d \in AdjustCaller : adjust'[d].pod = g /\ adjust'[d].at = "create"
    BY DEF PodIsMadeAgain
  <2>1. PICK d \in AdjustCaller : adjust[d].pod = g /\ adjust[d].at = "create"
    BY DEF AdjustInv, PodIsMadeAgain
  <2>2. d # c
    BY <2>1
  <2> QED
    BY <1>2, <2>1, <2>2
<1> QED
  BY <1>2, <1>3, <1>4, <1>5, <1>6, <1>7 DEF AdjustInv, ChargedInv

\* A request begins with what it reads of the pod.
LEMMA BeginAdjusting ==
    ASSUME AdjustInv, NEW c \in AdjustCaller, NEW e \in Pod, NEW new \in 1..TopCpu,
           AdjustResources(c, e, new)
    PROVE  AdjustInv'
<1> DEFINE row == [at |-> "check", pod |-> e, old |-> cpu[e], new |-> new, version |-> podWrites[e]]
<1>1. /\ adjust[c].at = "idle" /\ begun < MaxAdjustments /\ cpu[e] # 0
      /\ adjust' = [adjust EXCEPT ![c] = row]
      /\ begun' = begun + 1
      /\ adjustedTwice' = IF \E d \in AdjustCaller : adjust[d].pod = e
                          THEN adjustedTwice \cup {e} ELSE adjustedTwice
      /\ UNCHANGED <<cpu, podWrites, hasRecord, counted, podLost>>
  BY DEF AdjustResources
<1>2. cpu[e] \in 1..TopCpu /\ podWrites[e] \in Nat
  BY <1>1, AdjustmentAssumption DEF AdjustInv
<1>3. /\ row \in AdjustingRow /\ row.at = "check" /\ row.pod = e /\ row.old = cpu[e] /\ row.new = new
      /\ row.old \in 1..TopCpu
  <2>1. new \in 0..TopCpu /\ cpu[e] \in 0..TopCpu
    BY <1>2, AdjustmentAssumption
  <2> QED
    BY <1>2, <2>1 DEF AdjustingRow, AdjustPlace
<1> HIDE DEF row
<1>4. /\ adjust' \in [AdjustCaller -> AdjustingRow] /\ adjust'[c] = row
      /\ \A d \in AdjustCaller : d # c => adjust'[d] = adjust[d]
  BY <1>1, <1>3 DEF AdjustInv, AdjustRowsInv
<1>5. AdjustRowsInv'
  BY <1>1, <1>3, <1>4 DEF AdjustInv, AdjustRowsInv
<1>6. adjustedTwice' \subseteq Pod /\ adjustedTwice \subseteq adjustedTwice' /\ begun' \in 0..MaxAdjustments
  BY <1>1, AdjustmentAssumption DEF AdjustInv
<1>7. OvershootInv'
  <2>1. Asked(c) = 0 /\ Asked(c)' = 0 /\ counted \in Int
    BY <1>1, <1>3, <1>4 DEF Asked, AdjustInv
  <2> QED
    BY <1>1, <1>4, <1>5, <2>1, OvershootKept
<1>8. ASSUME adjustedTwice' = {}
      PROVE  /\ adjustedTwice = {} /\ Alone(adjust) /\ Alone(adjust')
             /\ \A d \in AdjustCaller : adjust[d].pod # e
  <2>1. adjustedTwice = {} /\ \A d \in AdjustCaller : adjust[d].pod # e
    BY <1>1, <1>6, <1>8
  <2>2. Alone(adjust)
    BY <2>1 DEF AdjustInv, AloneInv
  <2>3. Alone(adjust')
    BY <1>3, <1>4, <2>1, <2>2 DEF Alone
  <2> QED
    BY <2>1, <2>2, <2>3
<1>9. AloneInv'
  <2> SUFFICES ASSUME adjustedTwice' = {} PROVE AloneInv'
    BY DEF AloneInv
  <2>1. ASSUME NEW d \in AdjustCaller
        PROVE  /\ adjust'[d].at \in {"check", "update", "delete"} => cpu'[adjust'[d].pod] = adjust'[d].old
               /\ adjust'[d].at = "create" => cpu'[adjust'[d].pod] = 0
               /\ adjust'[d].at = "count" => cpu'[adjust'[d].pod] = adjust'[d].new
    BY <1>1, <1>3, <1>4, <1>8 DEF AdjustInv, AloneInv
  <2> QED
    BY <1>8, <2>1 DEF AloneInv
<1>10. ChargedInv'
  <2> SUFFICES ASSUME adjustedTwice' = {}, podLost' = {}
               PROVE  counted' = SumFunctionOnSet(Charged', Pod)
    BY DEF ChargedInv
  <2>0. /\ adjustedTwice = {} /\ Alone(adjust) /\ Alone(adjust')
        /\ \A d \in AdjustCaller : adjust[d].pod # e
    BY <1>8
  <2>a. Alone(adjust)
    BY <2>0
  <2>b. Alone(adjust')
    BY <2>0
  <2>1. \A g \in Pod : Settled(g)' = Settled(g)
    <3> SUFFICES ASSUME NEW g \in Pod
                 PROVE  SettledOf(adjust', cpu', g) = SettledOf(adjust, cpu, g)
      BY DEF Settled
    <3>1. CASE g = e
      <4>1. SettledOf(adjust, cpu, e) = cpu[e]
        BY <2>0, SettledIs
      <4>2. SettledOf(adjust', cpu', e) = adjust'[c].old
        <5>1. adjust'[c].pod = e
          BY <1>3, <1>4
        <5> QED
          BY <2>b, <5>1, SettledIs
      <4> QED
        BY <1>3, <1>4, <3>1, <4>1, <4>2
    <3>2. CASE g # e
      <4>1. adjust[c].pod = NoPod /\ g # NoPod
        BY <1>1, AdjustmentAssumption DEF AdjustInv, AdjustRowsInv, NoAdjustment
      <4>2. \A d \in AdjustCaller : adjust'[d].pod = g \/ adjust[d].pod = g => adjust'[d] = adjust[d]
        BY <1>3, <1>4, <3>2, <4>1
      <4>3. cpu'[g] = cpu[g]
        BY <1>1
      <4> QED
        BY <2>a, <2>b, <4>2, <4>3, SettledAgrees
    <3> QED
      BY <3>1, <3>2
  <2>2. Settled(e) \in Int /\ counted \in Int
    BY <2>0, SettledTyped DEF AdjustInv
  <2>3. counted' = counted + (Settled(e)' - Settled(e))
    BY <1>1, <2>1, <2>2
  <2>4. adjustedTwice = {} /\ podLost = {} /\ counted' \in Int /\ Settled(e)' \in Int
    BY <1>1, <2>0, <2>1, <2>2
  <2> QED
    BY <2>1, <2>3, <2>4, ChargedKept
<1>11. PodIsMadeAgain'
  <2> SUFFICES ASSUME NEW g \in Pod, cpu'[g] = 0, g \notin podLost'
               PROVE  \E d \in AdjustCaller : adjust'[d].pod = g /\ adjust'[d].at = "create"
    BY DEF PodIsMadeAgain
  <2>1. PICK d \in AdjustCaller : adjust[d].pod = g /\ adjust[d].at = "create"
    BY <1>1 DEF AdjustInv, PodIsMadeAgain
  <2>2. d # c
    BY <1>1, <2>1
  <2> QED
    BY <1>4, <2>1, <2>2
<1> QED
  BY <1>1, <1>5, <1>6, <1>7, <1>9, <1>10, <1>11 DEF AdjustInv

LEMMA AdjustStep ==
    ASSUME AdjustInv, [AdjustNext]_adjustVars
    PROVE  AdjustInv'
<1>0. ASSUME NEW c \in AdjustCaller, adjust[c].at # "idle"
      PROVE  /\ adjust[c].pod \in Pod /\ adjust[c].old \in 1..TopCpu /\ adjust[c].new \in 1..TopCpu
             /\ adjust[c].old \in 0..TopCpu /\ adjust[c].new \in 0..TopCpu /\ 0 \in 0..TopCpu
             /\ cpu = [cpu EXCEPT ![adjust[c].pod] = cpu[adjust[c].pod]]
             /\ cpu[adjust[c].pod] \in 0..TopCpu
             /\ Written(adjust[c].pod) => podWrites' \in [Pod -> Nat]
             /\ podWrites \in [Pod -> Nat]
  <2>1. adjust[c].pod \in Pod /\ adjust[c].old \in 1..TopCpu /\ adjust[c].new \in 1..TopCpu
    BY <1>0 DEF AdjustInv, AdjustRowsInv
  <2>2. adjust[c].old \in 0..TopCpu /\ adjust[c].new \in 0..TopCpu /\ 0 \in 0..TopCpu
    BY <2>1, AdjustmentAssumption
  <2>3. cpu = [cpu EXCEPT ![adjust[c].pod] = cpu[adjust[c].pod]] /\ cpu[adjust[c].pod] \in 0..TopCpu
    BY <2>1 DEF AdjustInv
  <2>4. podWrites \in [Pod -> Nat] /\ (Written(adjust[c].pod) => podWrites' \in [Pod -> Nat])
    BY <2>1 DEF AdjustInv, Written
  <2> QED
    BY <2>1, <2>2, <2>3, <2>4
<1>1. ASSUME NEW c \in AdjustCaller, NEW e \in Pod, NEW new \in 1..TopCpu, AdjustResources(c, e, new)
      PROVE  AdjustInv'
  BY <1>1, BeginAdjusting
<1>2. ASSUME NEW c \in AdjustCaller, CheckAdjustment(c)
      PROVE  AdjustInv'
  <2>1. /\ adjust[c].at = "check" /\ adjust[c].at # "idle"
        /\ UNCHANGED <<cpu, podWrites, hasRecord, counted, begun, podLost, adjustedTwice>>
    BY <1>2 DEF CheckAdjustment
  <2>2. CASE GivesUp(c)
    BY <2>1, <2>2, EndsAdjusting DEF AdjustInv
  <2>3. CASE Goes(c, "update") /\ (Delta(c) <= 0 \/ WithinQuota(c))
    <3>1. Delta(c) <= 0 \/ counted + Delta(c) <= QuotaCpu
      BY <2>3 DEF WithinQuota
    <3>2. adjustedTwice = {} => cpu[adjust[c].pod] = adjust[c].old
      BY <2>1 DEF AdjustInv, AloneInv
    <3>3. cpu' = [cpu EXCEPT ![adjust[c].pod] = cpu[adjust[c].pod]]
      BY <1>0, <2>1
    <3> QED
      BY <1>0, <2>1, <2>3, <3>1, <3>2, <3>3, GoesOnStep
  <2> QED
    BY <1>2, <2>2, <2>3 DEF CheckAdjustment
<1>3. ASSUME NEW c \in AdjustCaller, ApplyResourceChanges(c)
      PROVE  AdjustInv'
  <2>1. /\ adjust[c].at = "update" /\ adjust[c].at # "idle" /\ Goes(c, "count")
        /\ cpu' = [cpu EXCEPT ![adjust[c].pod] = adjust[c].new] /\ Written(adjust[c].pod)
        /\ UNCHANGED <<hasRecord, counted, begun, podLost, adjustedTwice>>
    BY <1>3 DEF ApplyResourceChanges
  <2>2. adjust[c].new \in 0..TopCpu /\ adjust[c].new # 0 /\ podWrites' \in [Pod -> Nat]
    BY <1>0, <2>1, AdjustmentAssumption
  <2> QED
    BY <2>1, <2>2, GoesOnStep
<1>4. ASSUME NEW c \in AdjustCaller, UpdateRefused(c)
      PROVE  AdjustInv'
  <2>1. /\ adjust[c].at = "update" /\ adjust[c].at # "idle" /\ Goes(c, "delete")
        /\ UNCHANGED <<cpu, podWrites, hasRecord, counted, begun, podLost, adjustedTwice>>
    BY <1>4 DEF UpdateRefused
  <2>2. adjustedTwice = {} => cpu[adjust[c].pod] = adjust[c].old
    BY <2>1 DEF AdjustInv, AloneInv
  <2>3. cpu' = [cpu EXCEPT ![adjust[c].pod] = cpu[adjust[c].pod]]
    BY <1>0, <2>1
  <2> QED
    BY <1>0, <2>1, <2>2, <2>3, GoesOnStep
<1>5. ASSUME NEW c \in AdjustCaller, DeletePod(c)
      PROVE  AdjustInv'
  <2>1. /\ adjust[c].at = "delete" /\ adjust[c].at # "idle" /\ Goes(c, "create")
        /\ cpu' = [cpu EXCEPT ![adjust[c].pod] = 0] /\ Written(adjust[c].pod)
        /\ UNCHANGED <<hasRecord, counted, begun, podLost, adjustedTwice>>
    BY <1>5 DEF DeletePod
  <2>2. 0 \in 0..TopCpu /\ podWrites' \in [Pod -> Nat]
    BY <1>0, <2>1
  <2> QED
    BY <2>1, <2>2, GoesOnStep
<1>6. ASSUME NEW c \in AdjustCaller, RecreatePod(c)
      PROVE  AdjustInv'
  <2>1. /\ adjust[c].at = "create" /\ adjust[c].at # "idle" /\ Goes(c, "count")
        /\ cpu' = [cpu EXCEPT ![adjust[c].pod] = adjust[c].new] /\ Written(adjust[c].pod)
        /\ UNCHANGED <<hasRecord, counted, begun, podLost, adjustedTwice>>
    BY <1>6 DEF RecreatePod
  <2>2. adjust[c].new \in 0..TopCpu /\ adjust[c].new # 0 /\ podWrites' \in [Pod -> Nat]
    BY <1>0, <2>1, AdjustmentAssumption
  <2> QED
    BY <2>1, <2>2, GoesOnStep
<1>7. ASSUME NEW c \in AdjustCaller, AdjustmentFails(c)
      PROVE  AdjustInv'
  <2>1. /\ adjust[c].at \in {"delete", "create"} /\ GivesUp(c)
        /\ podLost' = IF adjust[c].at = "create" /\ cpu[adjust[c].pod] = 0
                      THEN podLost \cup {adjust[c].pod} ELSE podLost
        /\ UNCHANGED <<cpu, podWrites, hasRecord, counted, begun, adjustedTwice>>
    BY <1>7 DEF AdjustmentFails
  <2>2. adjust[c].pod \in Pod /\ podLost \subseteq Pod
    BY <1>0, <2>1 DEF AdjustInv
  <2> QED
    BY <2>1, <2>2, EndsAdjusting DEF AdjustInv
<1>8. ASSUME NEW c \in AdjustCaller, UpdateUsage(c)
      PROVE  AdjustInv'
  BY <1>8, EndsAdjusting DEF UpdateUsage, AdjustInv
<1>9. CASE UNCHANGED adjustVars
  BY <1>9 DEF adjustVars, AdjustInv, AdjustRowsInv, AloneInv, Alone, ChargedInv, Charged, Settled,
              SettledOf, OvershootInv, Asking, Asked, Delta, PodIsMadeAgain
<1> QED
  BY <1>1, <1>2, <1>3, <1>4, <1>5, <1>6, <1>7, <1>8, <1>9 DEF AdjustNext

LEMMA AdjustGood ==
    AdjustInv => AdjustTypeOK /\ UsageOvershootBounded /\ UsageIsTrue /\ PodIsMadeAgain
<1> SUFFICES ASSUME AdjustInv PROVE AdjustTypeOK /\ UsageOvershootBounded /\ UsageIsTrue
  BY DEF AdjustInv
<1>1. AdjustTypeOK
  BY DEF AdjustInv, AdjustRowsInv, AdjustTypeOK, Adjusting, AdjustingRow
<1>2. UsageOvershootBounded
  <2>0. PICK f, g : f = [c \in AdjustCaller |-> Delta(c)] /\ g = Asking
    OBVIOUS
  <2>1. \A c \in AdjustCaller : f[c] \in Int /\ g[c] \in Int /\ 0 <= g[c]
    BY <2>0, AdjustingTyped DEF AdjustInv
  <2>2. \A c \in Checked : f[c] <= g[c]
    <3> SUFFICES ASSUME NEW c \in Checked PROVE Delta(c) <= Asked(c)
      BY <2>0, AdjustingTyped DEF Checked, AdjustInv
    <3>1. Delta(c) \in Int
      BY AdjustingTyped DEF Checked, AdjustInv
    <3> QED
      BY <3>1 DEF Checked, Asked
  <2>3. Checked \in SUBSET AdjustCaller /\ IsFiniteSet(AdjustCaller) /\ IsFiniteSet(Checked)
    BY AdjustmentAssumption, FS_Subset DEF Checked
  <2>4. SumFunctionOnSet(f, Checked) <= SumFunctionOnSet(g, AdjustCaller)
    BY <2>1, <2>2, <2>3, SumBelow
  <2>5. SumFunctionOnSet(f, Checked) \in Int /\ SumFunctionOnSet(g, AdjustCaller) \in Int
    BY <2>1, <2>3, SumTyped
  <2>6. counted \in Int /\ counted + SumFunctionOnSet(g, AdjustCaller)
            <= QuotaCpu + (Cardinality(AdjustCaller) - 1) * (TopCpu - 1)
    BY <2>0 DEF AdjustInv, OvershootInv
  <2>7. QuotaCpu + (Cardinality(AdjustCaller) - 1) * (TopCpu - 1) \in Int
    <3>1. Cardinality(AdjustCaller) - 1 \in Int /\ TopCpu - 1 \in Int /\ QuotaCpu \in Int
      BY AdjustmentAssumption, FS_CardinalityType
    <3>2. \A m, k \in Int : m * k \in Int
      OBVIOUS
    <3> QED
      BY <3>1, <3>2
  <2>8. counted + SumFunctionOnSet(f, Checked)
            <= QuotaCpu + (Cardinality(AdjustCaller) - 1) * (TopCpu - 1)
    <3>1. \A a, s, t, b \in Int : s <= t /\ a + t <= b => a + s <= b
      OBVIOUS
    <3> QED
      BY <2>4, <2>5, <2>6, <2>7, <3>1
  <2> QED
    BY <2>0, <2>8 DEF UsageOvershootBounded
<1>3. UsageIsTrue
  <2> SUFFICES ASSUME adjustedTwice \cup podLost = {}, \A c \in AdjustCaller : adjust[c].at = "idle"
               PROVE  counted = SumFunction([e \in Pod |-> cpu[e] - InitialCpu])
    BY DEF UsageIsTrue
  <2>1. \A c \in AdjustCaller : adjust[c].pod = NoPod
    BY DEF AdjustInv, AdjustRowsInv, NoAdjustment
  <2>2. \A e \in Pod : Settled(e) = cpu[e]
    BY <2>1, AdjustmentAssumption DEF Settled, SettledOf
  <2>3. Charged = [e \in Pod |-> cpu[e] - InitialCpu]
    BY <2>2 DEF Charged
  <2>4. counted = SumFunctionOnSet(Charged, Pod) /\ DOMAIN Charged = Pod
    BY DEF AdjustInv, ChargedInv, Charged
  <2>5. counted = SumFunction(Charged)
    BY <2>4 DEF SumFunction
  <2> QED
    BY <2>3, <2>5
<1> QED
  BY <1>1, <1>2, <1>3

-----------------------------------------------------------------------------
(* The policies.  A request that is isolating an environment has made the    *)
(* policies before the one it is at, unless the environment was stripped of  *)
(* them; while a pair is settled one request at most works on it, and access *)
(* is one way only between its two halves.                                   *)

NetworkRow == [at : NetworkPlace, from : Env \cup {NoEnv}, to : Env \cup {NoEnv}]

UnionPlace == {"allow", "allowReverse", "revoke", "revokeReverse"}

MakesBefore(place) ==
    IF place = "allow-egress" THEN {"default-deny-all"}
    ELSE IF place = "allow-ingress" THEN {"default-deny-all", "allow-egress"} ELSE {}

Mutual(p, e, f) == f \in p[e] <=> e \in p[f]

RequestsInv ==
    /\ network \in [NetworkCaller -> NetworkRow]
    /\ \A c \in NetworkCaller : network[c].at = "idle" => network[c] = NoRequest
    /\ \A c \in NetworkCaller : network[c].at \in Isolating \cup {"namespace"} =>
           network[c].from \in Env /\ network[c].to = NoEnv
    /\ \A c \in NetworkCaller : network[c].at \in UnionPlace =>
           network[c].from \in Env /\ network[c].to \in Env /\ network[c].from # network[c].to

IsolationInv ==
    /\ IsolatedIsProtected
    /\ \A c \in NetworkCaller : network[c].from \notin stripped =>
           (network[c].at \in Isolating => MakesBefore(network[c].at) \subseteq policies[network[c].from])

AccessInv ==
    /\ \A c, d \in NetworkCaller :
           /\ network[c].at \in UnionPlace /\ Pair(c) \notin unsettled
           /\ Pair(d) = Pair(c)
           => c = d
    /\ \A e, f \in Env : e # f /\ {e, f} \notin unsettled =>
           \/ Mutual(policies, e, f)
           \/ \E c \in NetworkCaller :
                  Pair(c) = {e, f} /\ network[c].at \in {"allowReverse", "revokeReverse"}
    /\ \A c \in NetworkCaller : Pair(c) \notin unsettled =>
           /\ network[c].at = "allowReverse" => network[c].from \in policies[network[c].to]
           /\ network[c].at = "revokeReverse" => network[c].from \notin policies[network[c].to]

NetworkInv ==
    /\ namespaces \subseteq Env /\ isolatedOK \subseteq Env /\ stripped \subseteq Env
    /\ policies \in [Env -> SUBSET (Isolating \cup Env)]
    /\ unions \in 0..MaxUnions
    /\ unsettled \subseteq SUBSET Env
    /\ RequestsInv /\ IsolationInv /\ AccessInv

LEMMA NetworkStart == NetworkInit => NetworkInv
<1> SUFFICES ASSUME NetworkInit PROVE NetworkInv
  OBVIOUS
<1>1. NoRequest \in NetworkRow /\ NoRequest.at = "idle"
  BY DEF NoRequest, NetworkRow, NetworkPlace
<1>2. \A c \in NetworkCaller : network[c] = NoRequest
  BY DEF NetworkInit
<1>3. RequestsInv
  BY <1>1, <1>2 DEF NetworkInit, RequestsInv, Isolating, UnionPlace
<1>4. IsolationInv
  BY <1>1, <1>2 DEF NetworkInit, IsolationInv, IsolatedIsProtected, Isolating
<1>5. AccessInv
  BY <1>1, <1>2 DEF NetworkInit, AccessInv, UnionPlace, Mutual
<1> QED
  BY <1>3, <1>4, <1>5, NetworkAssumption DEF NetworkInv, NetworkInit

\* Where a request is after it moves, is done or begins; the others stay.
LEMMA RequestMoves ==
    ASSUME RequestsInv, NEW c \in NetworkCaller
    PROVE  /\ \A place \in NetworkPlace : Moves(c, place) =>
                 /\ network' \in [NetworkCaller -> NetworkRow]
                 /\ network'[c].at = place /\ network'[c].from = network[c].from
                 /\ network'[c].to = network[c].to
                 /\ \A d \in NetworkCaller : d # c => network'[d] = network[d]
           /\ Done(c) =>
                 /\ network' \in [NetworkCaller -> NetworkRow]
                 /\ network'[c] = NoRequest
                 /\ \A d \in NetworkCaller : d # c => network'[d] = network[d]
           /\ NoRequest.at = "idle" /\ NoRequest.from = NoEnv /\ NoRequest.to = NoEnv
  BY DEF RequestsInv, NetworkRow, Moves, Done, NoRequest, NetworkPlace

\* Steps of isolation leave the access of pairs as it was.
LEMMA AccessUntouched ==
    ASSUME AccessInv, RequestsInv, NEW c \in NetworkCaller,
           \A d \in NetworkCaller : d # c => network'[d] = network[d],
           network[c].at \notin UnionPlace, network'[c].at \notin UnionPlace,
           network'[c].to = NoEnv,
           UNCHANGED unsettled, unsettled \subseteq SUBSET Env,
           \A e, f \in Env : f \in policies'[e] <=> f \in policies[e]
    PROVE  AccessInv'
<1>1. \A d \in NetworkCaller : network'[d].at \in UnionPlace => d # c /\ network'[d] = network[d]
  OBVIOUS
<1>2. ASSUME NEW d1 \in NetworkCaller, NEW d2 \in NetworkCaller, network'[d1].at \in UnionPlace,
             Pair(d1)' \notin unsettled', Pair(d2)' = Pair(d1)'
      PROVE  d1 = d2
  <2>1. network'[d1] = network[d1] /\ network[d1].from \in Env /\ network[d1].to \in Env
    BY <1>1, <1>2 DEF RequestsInv
  <2>2. d2 # c
    BY <1>2, <2>1, NetworkAssumption DEF Pair
  <2> QED
    BY <1>2, <2>1, <2>2 DEF Pair, AccessInv
<1>3. ASSUME NEW e \in Env, NEW f \in Env, e # f, {e, f} \notin unsettled', ~Mutual(policies', e, f)
      PROVE  \E d \in NetworkCaller :
                 Pair(d)' = {e, f} /\ network'[d].at \in {"allowReverse", "revokeReverse"}
  <2>1. PICK d \in NetworkCaller :
            Pair(d) = {e, f} /\ network[d].at \in {"allowReverse", "revokeReverse"}
    BY <1>3 DEF AccessInv, Mutual
  <2>2. d # c
    BY <2>1 DEF UnionPlace
  <2> QED
    BY <2>1, <2>2 DEF Pair
<1>4. ASSUME NEW d \in NetworkCaller, Pair(d)' \notin unsettled',
             network'[d].at \in {"allowReverse", "revokeReverse"}
      PROVE  /\ network'[d].at = "allowReverse" => network'[d].from \in policies'[network'[d].to]
             /\ network'[d].at = "revokeReverse" => network'[d].from \notin policies'[network'[d].to]
  <2>1. network'[d] = network[d] /\ network[d].from \in Env /\ network[d].to \in Env
    BY <1>1, <1>4 DEF UnionPlace, RequestsInv
  <2> QED
    BY <1>4, <2>1 DEF AccessInv, Pair
<1> QED
  BY <1>2, <1>3, <1>4 DEF AccessInv

\* Steps that give or end access leave the isolation of environments as it was.
LEMMA IsolationUntouched ==
    ASSUME IsolationInv, RequestsInv, isolatedOK \subseteq Env, NEW c \in NetworkCaller,
           \A d \in NetworkCaller : d # c => network'[d] = network[d],
           network'[c].at \notin Isolating,
           UNCHANGED isolatedOK, UNCHANGED stripped,
           \A e \in Env, p \in Isolating : p \in policies'[e] <=> p \in policies[e]
    PROVE  IsolationInv'
<1>1. IsolatedIsProtected'
  BY DEF IsolationInv, IsolatedIsProtected
<1>2. ASSUME NEW d \in NetworkCaller, network'[d].from \notin stripped',
             network'[d].at \in Isolating
      PROVE  MakesBefore(network'[d].at) \subseteq policies'[network'[d].from]
  BY <1>2 DEF IsolationInv, RequestsInv, MakesBefore, Isolating
<1> QED
  BY <1>1, <1>2 DEF IsolationInv

\* A policy that isolates is made, and the request goes on.
LEMMA PolicyStep ==
    ASSUME NetworkInv, NEW c \in NetworkCaller, NEW p \in Isolating,
           network[c].at = p, AddPolicy(network[c].from, p),
           UNCHANGED <<namespaces, unions, stripped, unsettled>>,
           \/ /\ Moves(c, "allow-egress") /\ p = "default-deny-all" /\ UNCHANGED isolatedOK
           \/ /\ Moves(c, "allow-ingress") /\ p = "allow-egress" /\ UNCHANGED isolatedOK
           \/ /\ Done(c) /\ p = "allow-ingress"
              /\ isolatedOK' = isolatedOK \cup {network[c].from}
    PROVE  NetworkInv'
<1> DEFINE e == network[c].from
<1>1. e \in Env /\ network[c].to = NoEnv
  BY DEF NetworkInv, RequestsInv
<1>2. /\ policies' \in [Env -> SUBSET (Isolating \cup Env)]
      /\ policies'[e] = policies[e] \cup {p}
      /\ \A f \in Env \ {e} : policies'[f] = policies[f]
  BY <1>1 DEF NetworkInv, AddPolicy
<1>3. /\ network' \in [NetworkCaller -> NetworkRow]
      /\ \A d \in NetworkCaller : d # c => network'[d] = network[d]
      /\ \/ network'[c].at = "allow-egress" /\ network'[c].from = e
         \/ network'[c].at = "allow-ingress" /\ network'[c].from = e
         \/ network'[c] = NoRequest
      /\ network'[c].to = NoEnv
  BY <1>1, RequestMoves DEF NetworkInv, NetworkPlace, Isolating
<1>4. RequestsInv'
  BY <1>1, <1>3, RequestMoves DEF NetworkInv, RequestsInv, UnionPlace, Isolating
<1>5. IsolationInv'
  <2>1. e \notin stripped => MakesBefore(p) \subseteq policies[e]
    BY DEF NetworkInv, IsolationInv
  <2>2. \A f \in Env : policies[f] \subseteq policies'[f]
    BY <1>2
  <2>3. IsolatedIsProtected'
    <3> SUFFICES ASSUME NEW f \in isolatedOK' \ stripped PROVE Isolating \subseteq policies'[f]
      BY DEF IsolatedIsProtected
    <3>1. CASE f \in isolatedOK
      BY <2>2, <3>1 DEF NetworkInv, IsolationInv, IsolatedIsProtected
    <3>2. CASE f \notin isolatedOK
      <4>1. f = e /\ p = "allow-ingress"
        BY <3>2
      <4> QED
        BY <1>2, <2>1, <4>1 DEF MakesBefore, Isolating
    <3> QED
      BY <3>1, <3>2
  <2>4. ASSUME NEW d \in NetworkCaller, network'[d].from \notin stripped, network'[d].at \in Isolating
        PROVE  MakesBefore(network'[d].at) \subseteq policies'[network'[d].from]
    <3>1. CASE d # c
      <4>1. network'[d] = network[d] /\ network[d].from \in Env
        BY <1>3, <2>4, <3>1 DEF NetworkInv, RequestsInv
      <4> QED
        BY <2>2, <2>4, <4>1 DEF NetworkInv, IsolationInv
    <3>2. CASE d = c
      <4>1. CASE Moves(c, "allow-egress") /\ p = "default-deny-all"
        <5>1. network'[c].at = "allow-egress" /\ network'[c].from = e
          BY <4>1, RequestMoves DEF NetworkInv, NetworkPlace, Isolating
        <5> QED
          BY <1>2, <3>2, <4>1, <5>1 DEF MakesBefore
      <4>2. CASE Moves(c, "allow-ingress") /\ p = "allow-egress"
        <5>1. network'[c].at = "allow-ingress" /\ network'[c].from = e
          BY <4>2, RequestMoves DEF NetworkInv, NetworkPlace, Isolating
        <5> QED
          BY <1>2, <2>1, <2>4, <3>2, <4>2, <5>1 DEF MakesBefore
      <4>3. CASE Done(c)
        <5>1. network'[c].at = "idle"
          BY <4>3, RequestMoves DEF NetworkInv
        <5> QED
          BY <2>4, <3>2, <5>1 DEF Isolating
      <4> QED
        BY <4>1, <4>2, <4>3
    <3> QED
      BY <3>1, <3>2
  <2> QED
    BY <2>3, <2>4 DEF IsolationInv
<1>6. AccessInv'
  <2>1. \A g, f \in Env : f \in policies'[g] <=> f \in policies[g]
    BY <1>2, NetworkAssumption
  <2>2. network[c].at \notin UnionPlace /\ network'[c].at \notin UnionPlace
    BY <1>3, RequestMoves DEF NetworkInv, UnionPlace, Isolating
  <2> QED
    BY <1>3, <2>1, <2>2, AccessUntouched DEF NetworkInv
<1>7. isolatedOK' \subseteq Env
  BY <1>1 DEF NetworkInv
<1> QED
  BY <1>2, <1>4, <1>5, <1>6, <1>7 DEF NetworkInv

\* A request for a pair does its half of the work, or ends.
LEMMA AccessMoves ==
    ASSUME NetworkInv, NEW c \in NetworkCaller, network[c].at \in UnionPlace,
           \A d \in NetworkCaller : d # c => network'[d] = network[d],
           \/ /\ network'[c].at \in {"allowReverse", "revokeReverse"}
              /\ network'[c].from = network[c].from /\ network'[c].to = network[c].to
           \/ network'[c] = NoRequest,
           unsettled \subseteq unsettled',
           \A e, f \in Env : {e, f} # Pair(c) => (f \in policies'[e] <=> f \in policies[e]),
           Pair(c) \notin unsettled' =>
               /\ network'[c].at = "allowReverse" => network[c].from \in policies'[network[c].to]
               /\ network'[c].at = "revokeReverse" => network[c].from \notin policies'[network[c].to]
               /\ network'[c].at = "idle" => Mutual(policies', network[c].from, network[c].to)
    PROVE  AccessInv'
<1> DEFINE a == network[c].from
           b == network[c].to
<1>1. a \in Env /\ b \in Env /\ a # b /\ Pair(c) = {a, b}
  BY DEF NetworkInv, RequestsInv, Pair
<1>2. NoRequest.at = "idle" /\ NoRequest.from = NoEnv /\ NoRequest.to = NoEnv
  BY DEF NoRequest
<1>3. \A d \in NetworkCaller : d # c => Pair(d)' = Pair(d)
  BY DEF Pair
<1>4. Pair(c)' = Pair(c) \/ (network'[c].at = "idle" /\ Pair(c)' = {NoEnv})
  <2>1. CASE network'[c].from = network[c].from /\ network'[c].to = network[c].to
    BY <2>1 DEF Pair
  <2>2. CASE network'[c] = NoRequest
    BY <1>2, <2>2 DEF Pair
  <2> QED
    BY <2>1, <2>2
<1>5. \A d \in NetworkCaller : d # c /\ Pair(c) \notin unsettled => Pair(d) # Pair(c)
  BY DEF NetworkInv, AccessInv
<1>6. ASSUME NEW d1 \in NetworkCaller, NEW d2 \in NetworkCaller, network'[d1].at \in UnionPlace,
             Pair(d1)' \notin unsettled', Pair(d2)' = Pair(d1)'
      PROVE  d1 = d2
  <2>1. Pair(d1)' = Pair(d1) /\ network[d1].at \in UnionPlace
    BY <1>2, <1>3, <1>4, <1>6 DEF UnionPlace
  <2>2. network[d1].from \in Env /\ network[d1].to \in Env /\ Pair(d1) # {NoEnv}
    BY <2>1, NetworkAssumption DEF NetworkInv, RequestsInv, Pair
  <2>3. Pair(d2)' = Pair(d2)
    BY <1>3, <1>4, <1>6, <2>1, <2>2
  <2>4. \A x, y \in NetworkCaller :
           network[x].at \in UnionPlace /\ Pair(x) \notin unsettled /\ Pair(y) = Pair(x) => x = y
    BY DEF NetworkInv, AccessInv
  <2>5. Pair(d1) \notin unsettled /\ Pair(d2) = Pair(d1)
    BY <1>6, <2>1, <2>3
  <2> QED
    BY <2>1, <2>4, <2>5
<1>7. ASSUME NEW e \in Env, NEW f \in Env, e # f, {e, f} \notin unsettled', ~Mutual(policies', e, f)
      PROVE  \E d \in NetworkCaller :
                 Pair(d)' = {e, f} /\ network'[d].at \in {"allowReverse", "revokeReverse"}
  <2>1. CASE {e, f} # Pair(c)
    <3>1. f \in policies'[e] <=> f \in policies[e]
      BY <2>1
    <3>2. e \in policies'[f] <=> e \in policies[f]
      BY <2>1
    <3>3. ~Mutual(policies, e, f)
      BY <1>7, <3>1, <3>2 DEF Mutual
    <3>4. PICK d \in NetworkCaller :
              Pair(d) = {e, f} /\ network[d].at \in {"allowReverse", "revokeReverse"}
      BY <1>7, <3>3 DEF NetworkInv, AccessInv
    <3> QED
      BY <1>3, <2>1, <3>4
  <2>2. CASE {e, f} = Pair(c)
    <3>1. network'[c].at \in {"allowReverse", "revokeReverse"} \/ Mutual(policies', a, b)
      BY <1>2, <1>7, <2>2
    <3>2. ~Mutual(policies', a, b)
      BY <1>1, <1>7, <2>2 DEF Mutual
    <3> QED
      BY <1>2, <1>4, <2>2, <3>1, <3>2
  <2> QED
    BY <2>1, <2>2
<1>8. ASSUME NEW d \in NetworkCaller, Pair(d)' \notin unsettled',
             network'[d].at \in {"allowReverse", "revokeReverse"}
      PROVE  /\ network'[d].at = "allowReverse" => network'[d].from \in policies'[network'[d].to]
             /\ network'[d].at = "revokeReverse" => network'[d].from \notin policies'[network'[d].to]
  <2>1. CASE d = c
    <3>1. Pair(c) \notin unsettled' /\ network'[c].from = a /\ network'[c].to = b
      BY <1>2, <1>4, <1>8, <2>1
    <3> QED
      BY <1>8, <2>1, <3>1
  <2>2. CASE d # c
    <3>1. network'[d] = network[d] /\ network[d].from \in Env /\ network[d].to \in Env
      BY <1>8, <2>2 DEF UnionPlace, NetworkInv, RequestsInv
    <3>2. Pair(d) \notin unsettled
      BY <1>3, <1>8, <2>2
    <3>3. network[d].at \in UnionPlace
      BY <1>8, <3>1 DEF UnionPlace
    <3>4. Pair(d) # Pair(c)
      BY <2>2, <3>2, <3>3 DEF NetworkInv, AccessInv
    <3>5. network[d].from \in policies'[network[d].to] <=> network[d].from \in policies[network[d].to]
      <4>1. Pair(d) = {network[d].to, network[d].from}
        BY DEF Pair
      <4> QED
        BY <3>1, <3>4, <4>1
    <3> QED
      BY <1>8, <3>1, <3>2, <3>5 DEF NetworkInv, AccessInv
  <2> QED
    BY <2>1, <2>2
<1> QED
  BY <1>6, <1>7, <1>8 DEF AccessInv

\* A policy for a peer is made or deleted, and the request goes on or is done.
LEMMA PeerStep ==
    ASSUME NetworkInv, NEW c \in NetworkCaller,
           \/ AllowFrom(c) \/ AllowReverse(c) \/ RevokeFrom(c) \/ RevokeReverse(c)
    PROVE  NetworkInv'
<1> DEFINE a == network[c].from
           b == network[c].to
<1>1. /\ network[c].at \in UnionPlace
      /\ UNCHANGED <<namespaces, unions, isolatedOK, stripped, unsettled>>
  BY DEF AllowFrom, AllowReverse, RevokeFrom, RevokeReverse, UnionPlace
<1>2. a \in Env /\ b \in Env /\ a # b /\ Pair(c) = {a, b}
  BY <1>1 DEF NetworkInv, RequestsInv, Pair
<1>3. PICK e \in {a, b}, g \in {a, b} :
        /\ e # g
        /\ policies' = [policies EXCEPT ![e] = @ \cup {g}] \/ policies' = [policies EXCEPT ![e] = @ \ {g}]
  BY <1>2 DEF AllowFrom, AllowReverse, RevokeFrom, RevokeReverse, AddPolicy, RemovePolicy
<1>4. /\ policies' \in [Env -> SUBSET (Isolating \cup Env)]
      /\ \A f \in Env, p \in Isolating \cup Env :
             f # e \/ p # g => (p \in policies'[f] <=> p \in policies[f])
  BY <1>2, <1>3 DEF NetworkInv
<1>5. /\ network' \in [NetworkCaller -> NetworkRow]
      /\ \A d \in NetworkCaller : d # c => network'[d] = network[d]
      /\ \/ /\ network'[c].at \in {"allowReverse", "revokeReverse"}
            /\ network'[c].from = a /\ network'[c].to = b
         \/ network'[c] = NoRequest
  BY RequestMoves DEF NetworkInv, NetworkPlace, AllowFrom, AllowReverse, RevokeFrom, RevokeReverse
<1>6. RequestsInv'
  BY <1>2, <1>5, RequestMoves DEF NetworkInv, RequestsInv, UnionPlace, Isolating
<1>7. IsolationInv'
  <2>1. network'[c].at \notin Isolating
    BY <1>5, RequestMoves DEF NetworkInv, Isolating
  <2>2. \A f \in Env, p \in Isolating : p \in policies'[f] <=> p \in policies[f]
    BY <1>2, <1>4, NetworkAssumption
  <2> QED
    BY <1>1, <1>5, <2>1, <2>2, IsolationUntouched DEF NetworkInv
<1>8. AccessInv'
  <2>1. \A f, h \in Env : {f, h} # Pair(c) => (h \in policies'[f] <=> h \in policies[f])
    <3>1. Pair(c) = {e, g}
      BY <1>2, <1>3
    <3> QED
      BY <1>2, <1>3, <1>4, <3>1
  <2>2. Pair(c) \notin unsettled' =>
            /\ network'[c].at = "allowReverse" => a \in policies'[b]
            /\ network'[c].at = "revokeReverse" => a \notin policies'[b]
            /\ network'[c].at = "idle" => Mutual(policies', a, b)
    <3> SUFFICES ASSUME Pair(c) \notin unsettled'
                 PROVE  /\ network'[c].at = "allowReverse" => a \in policies'[b]
                        /\ network'[c].at = "revokeReverse" => a \notin policies'[b]
                        /\ network'[c].at = "idle" => Mutual(policies', a, b)
      OBVIOUS
    <3>1. CASE AllowFrom(c)
      <4>1. network'[c].at = "allowReverse" /\ a \in policies'[b]
        BY <1>2, <3>1, RequestMoves DEF NetworkInv, NetworkPlace, AllowFrom, AddPolicy
      <4> QED
        BY <4>1
    <3>2. CASE RevokeFrom(c)
      <4>1. network'[c].at = "revokeReverse" /\ a \notin policies'[b]
        BY <1>2, <3>2, RequestMoves DEF NetworkInv, NetworkPlace, RevokeFrom, RemovePolicy
      <4> QED
        BY <4>1
    <3>3. CASE AllowReverse(c)
      <4>1. network'[c].at = "idle"
        BY <3>3, RequestMoves DEF NetworkInv, AllowReverse
      <4>2. a \in policies[b] /\ b \in policies'[a] /\ policies'[b] = policies[b]
        BY <1>1, <1>2, <3>3 DEF NetworkInv, AccessInv, AllowReverse, AddPolicy
      <4>3. Mutual(policies', a, b)
        BY <4>2 DEF Mutual
      <4> QED
        BY <4>1, <4>3
    <3>4. CASE RevokeReverse(c)
      <4>1. network'[c].at = "idle"
        BY <3>4, RequestMoves DEF NetworkInv, RevokeReverse
      <4>2. a \notin policies[b] /\ b \notin policies'[a] /\ policies'[b] = policies[b]
        BY <1>1, <1>2, <3>4 DEF NetworkInv, AccessInv, RevokeReverse, RemovePolicy
      <4>3. Mutual(policies', a, b)
        BY <4>2 DEF Mutual
      <4> QED
        BY <4>1, <4>3
    <3> QED
      BY <3>1, <3>2, <3>3, <3>4
  <2> QED
    BY <1>1, <1>5, <2>1, <2>2, AccessMoves
<1> QED
  BY <1>1, <1>4, <1>6, <1>7, <1>8 DEF NetworkInv

LEMMA BeginUnionStep ==
    ASSUME NetworkInv, NEW c \in NetworkCaller, NEW a \in Env, NEW b \in Env,
           NEW place \in {"allow", "revoke"}, BeginUnion(c, a, b, place)
    PROVE  NetworkInv'
<1> DEFINE row == [at |-> place, from |-> a, to |-> b]
<1>1. /\ network[c].at = "idle" /\ a # b /\ unions < MaxUnions /\ unions' = unions + 1
      /\ network' = [network EXCEPT ![c] = row]
      /\ unsettled' = IF \E d \in NetworkCaller : Pair(d) = {a, b}
                      THEN unsettled \cup {{a, b}} ELSE unsettled
      /\ UNCHANGED <<namespaces, policies, isolatedOK, stripped>>
  BY DEF BeginUnion
<1>2. row \in NetworkRow /\ row.at = place /\ row.from = a /\ row.to = b
  BY DEF NetworkRow, NetworkPlace
<1> HIDE DEF row
<1>3. /\ network' \in [NetworkCaller -> NetworkRow] /\ network'[c] = row
      /\ \A d \in NetworkCaller : d # c => network'[d] = network[d]
  BY <1>1, <1>2 DEF NetworkInv, RequestsInv
<1>4. RequestsInv'
  BY <1>1, <1>2, <1>3 DEF NetworkInv, RequestsInv, Isolating
<1>5. IsolationInv'
  BY <1>1, <1>2, <1>3, IsolationUntouched DEF NetworkInv, Isolating
<1>6. Pair(c) = {NoEnv}
  BY <1>1 DEF NetworkInv, RequestsInv, NoRequest, Pair
<1>7. Pair(c)' = {a, b} /\ \A d \in NetworkCaller : d # c => Pair(d)' = Pair(d)
  BY <1>2, <1>3 DEF Pair
<1>8. \A d \in NetworkCaller : {a, b} \notin unsettled' => Pair(d) # {a, b}
  BY <1>1
<1>9. unsettled \subseteq unsettled' /\ unsettled' \subseteq SUBSET Env
  BY <1>1 DEF NetworkInv
<1>10. AccessInv'
  <2>1. ASSUME NEW d1 \in NetworkCaller, NEW d2 \in NetworkCaller, network'[d1].at \in UnionPlace,
               Pair(d1)' \notin unsettled', Pair(d2)' = Pair(d1)'
        PROVE  d1 = d2
    <3>1. CASE d1 = c
      BY <1>7, <1>8, <2>1, <3>1
    <3>2. CASE d1 # c /\ d2 = c
      BY <1>7, <1>8, <2>1, <3>2
    <3>3. CASE d1 # c /\ d2 # c
      BY <1>3, <1>7, <1>9, <2>1, <3>3 DEF NetworkInv, AccessInv
    <3> QED
      BY <3>1, <3>2, <3>3
  <2>2. ASSUME NEW e \in Env, NEW f \in Env, e # f, {e, f} \notin unsettled', ~Mutual(policies', e, f)
        PROVE  \E d \in NetworkCaller :
                   Pair(d)' = {e, f} /\ network'[d].at \in {"allowReverse", "revokeReverse"}
    <3>1. ~Mutual(policies, e, f)
      BY <1>1, <2>2 DEF Mutual
    <3>2. PICK d \in NetworkCaller :
              Pair(d) = {e, f} /\ network[d].at \in {"allowReverse", "revokeReverse"}
      BY <1>9, <2>2, <3>1 DEF NetworkInv, AccessInv
    <3>3. d # c
      BY <1>1, <3>2
    <3> QED
      BY <1>3, <1>7, <3>2, <3>3
  <2>3. ASSUME NEW d \in NetworkCaller, Pair(d)' \notin unsettled',
               network'[d].at \in {"allowReverse", "revokeReverse"}
        PROVE  /\ network'[d].at = "allowReverse" => network'[d].from \in policies'[network'[d].to]
               /\ network'[d].at = "revokeReverse" => network'[d].from \notin policies'[network'[d].to]
    <3>1. d # c
      BY <1>2, <1>3, <2>3
    <3> QED
      BY <1>1, <1>3, <1>7, <1>9, <2>3, <3>1 DEF NetworkInv, AccessInv
  <2> QED
    BY <2>1, <2>2, <2>3 DEF AccessInv
<1>11. unions' \in 0..MaxUnions
  BY <1>1, NetworkAssumption DEF NetworkInv
<1> QED
  BY <1>1, <1>4, <1>5, <1>9, <1>10, <1>11 DEF NetworkInv

\* All policies of an environment go: of its pairs none is settled any more.
LEMMA DeletePoliciesStep ==
    ASSUME NetworkInv, NEW e \in Env, DeleteNamespaceNetworkPolicies(e)
    PROVE  NetworkInv'
<1>1. /\ policies' = [policies EXCEPT ![e] = {}]
      /\ isolatedOK' = isolatedOK \ {e}
      /\ stripped' = IF \E c \in NetworkCaller : IsolationUnderWay(c, e)
                     THEN stripped \cup {e} ELSE stripped
      /\ unsettled' = unsettled \cup {{e, f} : f \in Env \ {e}}
      /\ UNCHANGED <<namespaces, network, unions>>
  BY DEF DeleteNamespaceNetworkPolicies
<1>2. /\ policies' \in [Env -> SUBSET (Isolating \cup Env)]
      /\ \A f \in Env : f # e => policies'[f] = policies[f]
  BY <1>1 DEF NetworkInv
<1>3. unsettled \subseteq unsettled' /\ unsettled' \subseteq SUBSET Env
  BY <1>1 DEF NetworkInv
<1>4. RequestsInv'
  BY <1>1 DEF NetworkInv, RequestsInv
<1>5. IsolationInv'
  <2>1. IsolatedIsProtected'
    BY <1>1, <1>2 DEF NetworkInv, IsolationInv, IsolatedIsProtected
  <2>2. ASSUME NEW c \in NetworkCaller, network'[c].from \notin stripped', network'[c].at \in Isolating
        PROVE  MakesBefore(network'[c].at) \subseteq policies'[network'[c].from]
    <3>1. network[c].from # e
      BY <1>1, <2>2 DEF IsolationUnderWay
    <3>2. network[c].from \in Env
      BY <1>1, <2>2 DEF NetworkInv, RequestsInv
    <3> QED
      BY <1>1, <1>2, <2>2, <3>1, <3>2 DEF NetworkInv, IsolationInv
  <2> QED
    BY <2>1, <2>2 DEF IsolationInv
<1>6. AccessInv'
  <2>1. \A c \in NetworkCaller : Pair(c)' = Pair(c)
    BY <1>1 DEF Pair
  <2>2. ASSUME NEW g \in Env, NEW f \in Env, g # f, {g, f} \notin unsettled', ~Mutual(policies', g, f)
        PROVE  \E d \in NetworkCaller :
                   Pair(d)' = {g, f} /\ network'[d].at \in {"allowReverse", "revokeReverse"}
    <3>1. g # e /\ f # e
      <4>1. CASE g = e
        BY <1>1, <2>2, <4>1
      <4>2. CASE f = e
        <5>1. {g, f} = {e, g}
          BY <4>2
        <5> QED
          BY <1>1, <2>2, <5>1, <4>2
      <4> QED
        BY <4>1, <4>2
    <3>2. ~Mutual(policies, g, f)
      BY <1>2, <2>2, <3>1 DEF Mutual
    <3> QED
      BY <1>1, <1>3, <2>1, <2>2, <3>2 DEF NetworkInv, AccessInv
  <2>3. ASSUME NEW d \in NetworkCaller, Pair(d)' \notin unsettled',
               network'[d].at \in {"allowReverse", "revokeReverse"}
        PROVE  /\ network'[d].at = "allowReverse" => network'[d].from \in policies'[network'[d].to]
               /\ network'[d].at = "revokeReverse" => network'[d].from \notin policies'[network'[d].to]
    <3>1. /\ network[d].from \in Env /\ network[d].to \in Env /\ network[d].from # network[d].to
          /\ Pair(d) = {network[d].to, network[d].from}
      BY <1>1, <2>3 DEF NetworkInv, RequestsInv, UnionPlace, Pair
    <3>2. network[d].to # e
      BY <1>1, <2>1, <2>3, <3>1
    <3> QED
      BY <1>1, <1>2, <1>3, <2>1, <2>3, <3>1, <3>2 DEF NetworkInv, AccessInv
  <2>4. ASSUME NEW d1 \in NetworkCaller, NEW d2 \in NetworkCaller, network'[d1].at \in UnionPlace,
               Pair(d1)' \notin unsettled', Pair(d2)' = Pair(d1)'
        PROVE  d1 = d2
    BY <1>1, <1>3, <2>1, <2>4 DEF NetworkInv, AccessInv
  <2> QED
    BY <2>2, <2>3, <2>4 DEF AccessInv
<1>7. isolatedOK' \subseteq Env /\ stripped' \subseteq Env
  BY <1>1 DEF NetworkInv
<1> QED
  BY <1>1, <1>2, <1>3, <1>4, <1>5, <1>6, <1>7 DEF NetworkInv

LEMMA NetworkStep ==
    ASSUME NetworkInv, [NetworkNext]_networkVars
    PROVE  NetworkInv'
<1>1. ASSUME NEW c \in NetworkCaller, NEW e \in Env, CreateIsolatedNamespace(c, e)
      PROVE  NetworkInv'
  <2> DEFINE row == [at |-> "namespace", from |-> e, to |-> NoEnv]
  <2>1. /\ network[c].at = "idle" /\ network' = [network EXCEPT ![c] = row]
        /\ UNCHANGED <<namespaces, policies, unions, isolatedOK, stripped, unsettled>>
    BY <1>1 DEF CreateIsolatedNamespace
  <2>2. row \in NetworkRow /\ row.at = "namespace" /\ row.from = e /\ row.to = NoEnv
    BY DEF NetworkRow, NetworkPlace
  <2> HIDE DEF row
  <2>3. /\ network' \in [NetworkCaller -> NetworkRow] /\ network'[c] = row
        /\ \A d \in NetworkCaller : d # c => network'[d] = network[d]
    BY <2>1, <2>2 DEF NetworkInv, RequestsInv
  <2>4. RequestsInv'
    BY <2>1, <2>2, <2>3 DEF NetworkInv, RequestsInv, UnionPlace
  <2>5. IsolationInv'
    BY <2>1, <2>2, <2>3, IsolationUntouched DEF NetworkInv, Isolating
  <2>6. AccessInv'
    BY <2>1, <2>2, <2>3, AccessUntouched DEF NetworkInv, UnionPlace
  <2> QED
    BY <2>1, <2>4, <2>5, <2>6 DEF NetworkInv
<1>2. ASSUME NEW c \in NetworkCaller, CreateNamespace(c)
      PROVE  NetworkInv'
  <2>1. /\ network[c].at = "namespace" /\ Moves(c, "default-deny-all")
        /\ namespaces' = namespaces \cup {network[c].from}
        /\ UNCHANGED <<policies, unions, isolatedOK, stripped, unsettled>>
    BY <1>2 DEF CreateNamespace
  <2>2. network[c].from \in Env /\ network[c].to = NoEnv
    BY <2>1 DEF NetworkInv, RequestsInv
  <2>3. /\ network' \in [NetworkCaller -> NetworkRow]
        /\ network'[c].at = "default-deny-all" /\ network'[c].from = network[c].from
        /\ network'[c].to = network[c].to
        /\ \A d \in NetworkCaller : d # c => network'[d] = network[d]
    BY <2>1, RequestMoves DEF NetworkInv, NetworkPlace, Isolating
  <2>4. RequestsInv'
    BY <2>2, <2>3 DEF NetworkInv, RequestsInv, UnionPlace
  <2>5. IsolationInv'
    <3>1. MakesBefore("default-deny-all") = {}
      BY DEF MakesBefore
    <3> QED
      BY <2>1, <2>3, <3>1 DEF NetworkInv, IsolationInv, IsolatedIsProtected
  <2>6. AccessInv'
    BY <2>1, <2>2, <2>3, AccessUntouched DEF NetworkInv, UnionPlace
  <2> QED
    BY <2>1, <2>2, <2>4, <2>5, <2>6 DEF NetworkInv
<1>3. ASSUME NEW c \in NetworkCaller,
             CreateDefaultDenyPolicy(c) \/ CreateEgressPolicy(c) \/ CreateIngressPolicy(c)
      PROVE  NetworkInv'
  BY <1>3, PolicyStep DEF CreateDefaultDenyPolicy, CreateEgressPolicy, CreateIngressPolicy,
                          CreatePolicy, Isolating
<1>4. ASSUME NEW e \in Env, DeleteNamespaceNetworkPolicies(e)
      PROVE  NetworkInv'
  BY <1>4, DeletePoliciesStep
<1>5. ASSUME NEW c \in NetworkCaller, NEW e \in Env, NEW f \in Env,
             AllowCrossNamespaceAccess(c, e, f) \/ RevokeCrossNamespaceAccess(c, e, f)
      PROVE  NetworkInv'
  BY <1>5, BeginUnionStep DEF AllowCrossNamespaceAccess, RevokeCrossNamespaceAccess
<1>6. ASSUME NEW c \in NetworkCaller, NetworkCallFails(c)
      PROVE  NetworkInv'
  <2>1. /\ network[c].at # "idle" /\ Done(c)
        /\ unsettled' = IF network[c].at \in {"allowReverse", "revokeReverse"}
                        THEN unsettled \cup {Pair(c)} ELSE unsettled
        /\ UNCHANGED <<namespaces, policies, unions, isolatedOK, stripped>>
    BY <1>6 DEF NetworkCallFails
  <2>2. /\ network' \in [NetworkCaller -> NetworkRow] /\ network'[c] = NoRequest
        /\ \A d \in NetworkCaller : d # c => network'[d] = network[d]
        /\ NoRequest.at = "idle" /\ NoRequest.from = NoEnv /\ NoRequest.to = NoEnv
    BY <2>1, RequestMoves DEF NetworkInv
  <2>3. RequestsInv'
    BY <2>2 DEF NetworkInv, RequestsInv, UnionPlace, Isolating
  <2>4. IsolationInv'
    BY <2>1, <2>2, IsolationUntouched DEF NetworkInv, Isolating
  <2>5. CASE network[c].at \in UnionPlace
    <3>1. /\ network[c].from \in Env /\ network[c].to \in Env /\ network[c].from # network[c].to
          /\ Pair(c) = {network[c].from, network[c].to}
      BY <2>5 DEF NetworkInv, RequestsInv, Pair
    <3>2. unsettled \subseteq unsettled' /\ unsettled' \subseteq SUBSET Env
      BY <2>1, <3>1 DEF NetworkInv
    <3>3. Pair(c) \notin unsettled' => Mutual(policies, network[c].from, network[c].to)
      <4> SUFFICES ASSUME Pair(c) \notin unsettled', ~Mutual(policies, network[c].from, network[c].to) PROVE FALSE
        OBVIOUS
      <4>1. PICK d \in NetworkCaller :
                Pair(d) = Pair(c) /\ network[d].at \in {"allowReverse", "revokeReverse"}
        <5>1. Pair(c) \notin unsettled
          BY <3>2
        <5> HIDE DEF Pair
        <5> QED
          BY <3>1, <5>1 DEF NetworkInv, AccessInv
      <4>2. d = c
        BY <2>5, <3>2, <4>1 DEF NetworkInv, AccessInv
      <4> QED
        BY <2>1, <4>1, <4>2
    <3>4. AccessInv'
      BY <2>1, <2>2, <2>5, <3>2, <3>3, AccessMoves
    <3> QED
      BY <2>1, <2>3, <2>4, <3>2, <3>4 DEF NetworkInv
  <2>6. CASE network[c].at \notin UnionPlace
    <3>1. UNCHANGED unsettled
      BY <2>1, <2>6 DEF UnionPlace
    <3>2. AccessInv'
      BY <2>1, <2>2, <2>6, <3>1, AccessUntouched DEF NetworkInv, UnionPlace
    <3> QED
      BY <2>1, <2>3, <2>4, <3>1, <3>2 DEF NetworkInv
  <2> QED
    BY <2>5, <2>6
<1>7. CASE UNCHANGED networkVars
  BY <1>7 DEF networkVars, NetworkInv, RequestsInv, IsolationInv, IsolatedIsProtected, AccessInv,
              Pair, Mutual
<1> QED
  BY <1>1, <1>2, <1>3, <1>4, <1>5, <1>6, <1>7, PeerStep DEF NetworkNext

LEMMA NetworkGood ==
    NetworkInv => NetworkTypeOK /\ IsolatedIsProtected /\ AccessIsMutual
<1> SUFFICES ASSUME NetworkInv PROVE NetworkTypeOK /\ IsolatedIsProtected /\ AccessIsMutual
  OBVIOUS
<1>1. NetworkTypeOK
  BY DEF NetworkInv, RequestsInv, NetworkTypeOK, NetworkRow
<1>2. IsolatedIsProtected
  BY DEF NetworkInv, IsolationInv
<1>3. AccessIsMutual
  <2> SUFFICES ASSUME NEW e \in Env, NEW f \in Env, f \in policies[e], e \notin policies[f],
                      {e, f} \notin unsettled
               PROVE  \E c \in NetworkCaller : Pair(c) = {e, f}
    BY DEF AccessIsMutual
  <2> QED
    BY DEF NetworkInv, AccessInv, Mutual
<1> QED
  BY <1>1, <1>2, <1>3

-----------------------------------------------------------------------------
(* The controller.  A Reconcile that is at a step has made what the steps    *)
(* before it make; a pod that is there of a stopped DevBox was made by a     *)
(* Reconcile that has not looked at it yet.                                  *)

EverMade == objects \cup takenAway

MadeBefore(place) ==
    CASE place = "pvc" -> {"namespace"}
      [] place = "config" -> {"namespace", "pvc"}
      [] place = "pod" -> {"namespace", "pvc", "config"}
      [] place = "service" -> {"namespace", "pvc", "config", "pod"}
      [] place = "status" -> {"namespace", "pvc", "config", "pod", "service"}
      [] OTHER -> {}

PodNotLookedAt ==
    kept = "Stopped" /\ "pod" \in objects
        => statusUnread \/ \E c \in Reconciler : reconcile[c] \in {"service", "status"}

ControllerInv ==
    /\ ControllerTypeOK
    /\ RunningIsComplete
    /\ PodNotLookedAt
    /\ \A c \in Reconciler : MadeBefore(reconcile[c]) \subseteq EverMade

LEMMA StepsInOrder ==
    /\ Object = {"namespace", "pvc", "config", "pod", "service"}
    /\ After("namespace") = "pvc" /\ After("pvc") = "config" /\ After("config") = "pod"
    /\ After("pod") = "service" /\ After("service") = "status"
<1>1. DOMAIN Steps = {1, 2, 3, 4, 5}
  <2>1. Len(Steps) = 5 /\ DOMAIN Steps = 1..Len(Steps)
    BY DEF Steps
  <2> QED
    BY <2>1
<1>2. /\ Steps[1] = "namespace" /\ Steps[2] = "pvc" /\ Steps[3] = "config"
      /\ Steps[4] = "pod" /\ Steps[5] = "service"
  BY DEF Steps
<1> HIDE DEF Steps
<1>3. Object = {"namespace", "pvc", "config", "pod", "service"}
  BY <1>1, <1>2 DEF Object
<1>4. \A k \in {1, 2, 3, 4} : (CHOOSE i \in DOMAIN Steps : Steps[i] = Steps[k]) = k
  BY <1>1, <1>2
<1>5. \A k \in {1, 2, 3, 4} : After(Steps[k]) = Steps[k + 1]
  BY <1>2, <1>4 DEF After
<1>6. After("service") = "status"
  BY DEF After
<1> QED
  BY <1>2, <1>3, <1>5, <1>6

LEMMA ControllerStart == ControllerInit => ControllerInv
  BY DEF ControllerInit, ControllerInv, ControllerTypeOK, RunningIsComplete, PodNotLookedAt,
         MadeBefore, EverMade, DevBoxPhase, ReconcilePlace

\* A Reconcile that goes to a place whose objects have all been made, with nothing
\* else lost for good.
LEMMA Reached ==
    ASSUME ControllerInv, NEW c \in Reconciler, NEW place \in ReconcilePlace, At(c, place),
           EverMade \subseteq objects' \cup takenAway',
           MadeBefore(place) \subseteq objects' \cup takenAway'
    PROVE  /\ reconcile' \in [Reconciler -> ReconcilePlace]
           /\ \A d \in Reconciler : MadeBefore(reconcile'[d]) \subseteq objects' \cup takenAway'
<1>1. reconcile \in [Reconciler -> ReconcilePlace]
  BY DEF ControllerInv, ControllerTypeOK
<1>2. \A d \in Reconciler : reconcile'[d] = IF d = c THEN place ELSE reconcile[d]
  BY <1>1 DEF At
<1>3. \A d \in Reconciler : MadeBefore(reconcile[d]) \subseteq objects' \cup takenAway'
  BY DEF ControllerInv
<1> QED
  BY <1>1, <1>2, <1>3 DEF At

LEMMA EnsureStep ==
    ASSUME ControllerInv, NEW c \in Reconciler, NEW o \in Object, Ensure(c, o),
           podPhase' \in {podPhase, "Pending"}
    PROVE  ControllerInv'
<1> USE DEF Ensure
<1>1. EverMade \cup {o} \subseteq objects' \cup takenAway'
  BY DEF EverMade
<1>2. After(o) \in ReconcilePlace /\ MadeBefore(After(o)) = MadeBefore(o) \cup {o}
  BY StepsInOrder DEF ReconcilePlace, MadeBefore
<1>3. MadeBefore(o) \subseteq EverMade
  BY DEF ControllerInv
<1>4. /\ reconcile' \in [Reconciler -> ReconcilePlace]
      /\ \A d \in Reconciler : MadeBefore(reconcile'[d]) \subseteq objects' \cup takenAway'
  <2>1. MadeBefore(After(o)) \subseteq objects' \cup takenAway' /\ At(c, After(o))
    BY <1>1, <1>2, <1>3
  <2> QED
    BY <1>1, <1>2, <2>1, Reached
<1>5. ControllerTypeOK'
  BY <1>4 DEF ControllerInv, ControllerTypeOK
<1>6. RunningIsComplete'
  BY <1>1 DEF ControllerInv, RunningIsComplete, EverMade
<1>7. PodNotLookedAt'
  <2> SUFFICES ASSUME kept' = "Stopped", "pod" \in objects', ~statusUnread'
               PROVE  \E d \in Reconciler : reconcile'[d] \in {"service", "status"}
    BY DEF PodNotLookedAt
  <2>1. \A d \in Reconciler : reconcile'[d] = IF d = c THEN After(o) ELSE reconcile[d]
    BY DEF At, ControllerInv, ControllerTypeOK
  <2>2. CASE o = "pod"
    BY <2>1, <2>2, StepsInOrder
  <2>3. CASE o # "pod"
    <3>1. PICK d \in Reconciler : reconcile[d] \in {"service", "status"}
      BY <2>3 DEF ControllerInv, PodNotLookedAt
    <3>2. CASE d = c
      BY <2>1, <3>1, <3>2, StepsInOrder
    <3> QED
      BY <2>1, <3>1, <3>2
  <2> QED
    BY <2>2, <2>3
<1> QED
  BY <1>4, <1>5, <1>6, <1>7 DEF ControllerInv, EverMade

\* A step that makes nothing, sends a Reconcile to where nothing has to have been made,
\* and says nothing better of the DevBox than is known.
LEMMA StatusStep ==
    ASSUME ControllerInv, NEW c \in Reconciler, CheckAndUpdateStatus(c)
    PROVE  ControllerInv'
<1>1. /\ reconcile[c] = "status" /\ At(c, "idle")
      /\ UNCHANGED <<objects, terminating, podPhase, takenAway>>
  BY DEF CheckAndUpdateStatus
<1>2. Object \subseteq EverMade
  BY <1>1, StepsInOrder DEF ControllerInv, MadeBefore
<1>3. MadeBefore("idle") = {} /\ "idle" \in ReconcilePlace
  BY DEF MadeBefore, ReconcilePlace
<1>4. /\ reconcile' \in [Reconciler -> ReconcilePlace]
      /\ \A d \in Reconciler : MadeBefore(reconcile'[d]) \subseteq objects' \cup takenAway'
  BY <1>1, <1>3, Reached DEF EverMade
<1>5. kept' \in DevBoxPhase /\ statusUnread' \in BOOLEAN
  BY DEF CheckAndUpdateStatus, ControllerInv, ControllerTypeOK, DevBoxPhase
<1>6. ControllerTypeOK'
  BY <1>1, <1>4, <1>5 DEF ControllerInv, ControllerTypeOK
<1>7. RunningIsComplete'
  BY <1>1, <1>2 DEF RunningIsComplete, EverMade
<1>8. PodNotLookedAt'
  <2> SUFFICES ASSUME kept' = "Stopped", "pod" \in objects', ~statusUnread' PROVE FALSE
    BY DEF PodNotLookedAt
  <2>1. kept' = IF podPhase = "Pending" THEN "Creating" ELSE podPhase
    BY <1>1, <1>5 DEF CheckAndUpdateStatus
  <2> QED
    BY <2>1 DEF ControllerInv, ControllerTypeOK
<1> QED
  BY <1>1, <1>4, <1>6, <1>7, <1>8 DEF ControllerInv, EverMade

LEMMA ControllerStep ==
    ASSUME ControllerInv, [ControllerNext]_controllerVars
    PROVE  ControllerInv'
<1> USE DEF ControllerInv
<1>0. MadeBefore("idle") = {} /\ MadeBefore("namespace") = {} /\ MadeBefore("running") = {}
      /\ MadeBefore("stopped") = {} /\ MadeBefore("stopping") = {} /\ MadeBefore("deleting") = {}
      /\ {"idle", "namespace", "running", "stopped", "stopping", "deleting"} \subseteq ReconcilePlace
  BY StepsInOrder DEF MadeBefore, ReconcilePlace

\* A Reconcile goes to a place where nothing has to have been made.
<1>a. ASSUME NEW c \in Reconciler,
             NEW place \in {"idle", "namespace", "running", "stopped", "stopping", "deleting"},
             At(c, place), reconcile[c] \notin {"service", "status"},
             UNCHANGED objects, UNCHANGED takenAway, UNCHANGED podPhase, UNCHANGED statusUnread,
             terminating' \in BOOLEAN, kept' \in {kept, "Creating", "Failed"}
      PROVE  ControllerInv'
  <2>1. /\ reconcile' \in [Reconciler -> ReconcilePlace]
        /\ \A d \in Reconciler : MadeBefore(reconcile'[d]) \subseteq objects' \cup takenAway'
    <3>1. /\ EverMade \subseteq objects' \cup takenAway' /\ place \in ReconcilePlace
          /\ MadeBefore(place) \subseteq objects' \cup takenAway'
      BY <1>0, <1>a DEF EverMade
    <3> QED
      BY <1>a, <3>1, Reached
  <2>2. ControllerTypeOK'
    BY <1>a, <2>1 DEF ControllerTypeOK, DevBoxPhase
  <2>3. RunningIsComplete'
    BY <1>a DEF RunningIsComplete
  <2>4. PodNotLookedAt'
    <3>1. \A d \in Reconciler : d # c => reconcile'[d] = reconcile[d]
      BY <1>a DEF At, ControllerTypeOK
    <3> QED
      BY <1>a, <3>1 DEF PodNotLookedAt
  <2> QED
    BY <1>a, <2>1, <2>2, <2>3, <2>4 DEF EverMade

\* What there is of the DevBox goes away.
<1>b. ASSUME NEW o \in objects, objects' = objects \ {o}, takenAway' = takenAway \cup {o},
             terminating' \in BOOLEAN,
             UNCHANGED <<podPhase, kept, reconcile, statusUnread>>
      PROVE  ControllerInv'
  <2>1. o \in Object
    BY DEF ControllerTypeOK
  <2>2. ControllerTypeOK' /\ RunningIsComplete' /\ PodNotLookedAt'
    BY <1>b, <2>1 DEF ControllerTypeOK, RunningIsComplete, PodNotLookedAt
  <2>3. EverMade \subseteq objects' \cup takenAway'
    BY <1>b DEF EverMade
  <2> QED
    BY <1>b, <2>2, <2>3 DEF EverMade
<1>1. ASSUME NEW c \in Reconciler, NEW phase \in DevBoxPhase, Reconcile(c, phase)
      PROVE  ControllerInv'
  <2>1. CASE phase = "Failed"
    BY <1>1, <2>1 DEF Reconcile, ControllerTypeOK, RunningIsComplete, PodNotLookedAt, EverMade
  <2>2. CASE phase # "Failed"
    <3>1. PICK place \in {"namespace", "running", "stopped"} : At(c, place)
      BY <1>1, <2>2 DEF Reconcile, DevBoxPhase
    <3> QED
      BY <1>1, <1>a, <3>1 DEF Reconcile, ControllerTypeOK
  <2> QED
    BY <2>1, <2>2
<1>2. ASSUME NEW c \in Reconciler, HandleDeletion(c)
      PROVE  ControllerInv'
  BY <1>2, <1>a DEF HandleDeletion, ControllerTypeOK
<1>3. ASSUME NEW c \in Reconciler,
             \/ EnsureNamespace(c) \/ EnsurePVC(c) \/ EnsureSSHConfigMap(c)
             \/ EnsurePod(c) \/ EnsureService(c)
      PROVE  ControllerInv'
  <2>1. PICK o \in Object : Ensure(c, o) /\ podPhase' \in {podPhase, "Pending"}
    BY <1>3, StepsInOrder DEF EnsureNamespace, EnsurePVC, EnsureSSHConfigMap, EnsurePod,
                              EnsureService
  <2> QED
    BY <2>1, EnsureStep
<1>4. ASSUME NEW c \in Reconciler, NEW o \in Object, SetFailed(c, o)
      PROVE  ControllerInv'
  <2>1. ControllerTypeOK'
    <3>1. /\ reconcile' \in [Reconciler -> ReconcilePlace]
          /\ \A d \in Reconciler : MadeBefore(reconcile'[d]) \subseteq objects' \cup takenAway'
      BY <1>0, <1>4, Reached DEF SetFailed, EverMade
    <3> QED
      BY <1>4, <3>1 DEF SetFailed, ControllerTypeOK, DevBoxPhase
  <2>2. \A d \in Reconciler : MadeBefore(reconcile'[d]) \subseteq objects' \cup takenAway'
    BY <1>0, <1>4, Reached DEF SetFailed, EverMade
  <2> QED
    BY <1>4, <2>1, <2>2 DEF SetFailed, RunningIsComplete, PodNotLookedAt, EverMade
<1>5. ASSUME NEW c \in Reconciler, ReconcileRunning(c)
      PROVE  ControllerInv'
  <2>1. PICK place \in {"idle", "namespace", "stopping"} :
            At(c, place) /\ kept' \in {kept, "Creating"}
    BY <1>5 DEF ReconcileRunning
  <2> QED
    BY <1>5, <1>a, <2>1 DEF ReconcileRunning, ControllerTypeOK
<1>6. ASSUME NEW c \in Reconciler, StopDevBox(c)
      PROVE  ControllerInv'
  <2>1. CASE UNCHANGED <<objects, takenAway, kept>>
    BY <1>6, <1>a, <2>1 DEF StopDevBox, ControllerTypeOK
  <2>2. CASE /\ objects' = objects \ {"pod"}
             /\ takenAway' = takenAway \cup (objects \cap {"pod"})
             /\ kept' = "Stopped"
    <3>1. EverMade \subseteq objects' \cup takenAway'
      BY <2>2 DEF EverMade
    <3>2. /\ reconcile' \in [Reconciler -> ReconcilePlace]
          /\ \A d \in Reconciler : MadeBefore(reconcile'[d]) \subseteq objects' \cup takenAway'
      BY <1>0, <1>6, <3>1, Reached DEF StopDevBox
    <3>3. ControllerTypeOK'
      BY <1>6, <2>2, <3>2 DEF StopDevBox, ControllerTypeOK, DevBoxPhase
    <3> QED
      BY <2>2, <3>2, <3>3 DEF RunningIsComplete, PodNotLookedAt, EverMade
  <2> QED
    BY <1>6, <2>1, <2>2 DEF StopDevBox
<1>7. ASSUME NEW c \in Reconciler, DeleteResources(c)
      PROVE  ControllerInv'
  BY <1>7, <1>a DEF DeleteResources, ControllerTypeOK
<1>8. ASSUME NEW phase \in {"Running", "Failed"}, PodMoves(phase)
      PROVE  ControllerInv'
  BY <1>8 DEF PodMoves, ControllerTypeOK, RunningIsComplete, PodNotLookedAt, EverMade
<1>9. ASSUME PodEvicted
      PROVE  ControllerInv'
  BY <1>9, <1>b DEF PodEvicted, ControllerTypeOK
<1>10. ASSUME NEW o \in Object, Terminate(o)
       PROVE  ControllerInv'
  BY <1>10, <1>b DEF Terminate
<1>11. CASE UNCHANGED controllerVars
  BY <1>11 DEF controllerVars, ControllerTypeOK, RunningIsComplete, PodNotLookedAt, EverMade
<1> QED
  BY <1>1, <1>2, <1>3, <1>4, <1>5, <1>6, <1>7, <1>8, <1>9, <1>10, <1>11, StatusStep
     DEF ControllerNext

LEMMA ControllerGood ==
    ControllerInv => ControllerTypeOK /\ RunningIsComplete /\ StoppedHasNoPod
  BY StepsInOrder DEF ControllerInv, PodNotLookedAt, StoppedHasNoPod

-----------------------------------------------------------------------------
(* The parts together.                                                       *)

LEMMA PartsStep ==
    [Next]_vars =>
        /\ [SessionsNext]_sessionVars /\ [MfaNext]_mfaVars /\ [LinksNext]_linkVars
        /\ [RoleCacheNext]_roleVars /\ [KeysNext]_keyVars /\ [SshKeysNext]_sshKeyVars
        /\ [SshConnectionsNext]_sshVars /\ [SubscriptionsNext]_subscriptionVars
        /\ [PreviewNext]_previewVars /\ [LimiterNext]_limiterVars /\ [AdjustNext]_adjustVars
        /\ [NetworkNext]_networkVars /\ [ApiKeysNext]_apiKeyVars
        /\ [ControllerNext]_controllerVars
  BY DEF Next, OthersStay, vars

\* A behaviour of all the parts is a behaviour of the sessions, of multi-factor
\* authentication and of the creation limiter, each seen through its own variables.
THEOREM PartsAreImplemented == Spec => SessionsSpec /\ MfaSpec /\ LimiterSpec
<1>1. Init => SessionsInit /\ MfaInit /\ LimiterInit
  BY DEF Init
<1> QED
  BY <1>1, PartsStep, PTL DEF Spec, SessionsSpec, MfaSpec, LimiterSpec

\* RefreshToken exchanges a refresh token once and VerifyRecoveryCode lets the user in
\* once with a code, but for the races that are named, for any number of tokens, codes
\* and requests.
THEOREM GoodForOneUse == Spec => []UsedOnce
<1>1. SessionsInv => ExchangedOnce
  BY DEF SessionsInv, SessionsTypeOK, Undisturbed, ExchangedOnce
<1>2. CodesInv => CodeUsedOnce
  BY DEF CodesInv, MfaTypeOK, Unraced, CodeUsedOnce
<1>3. SessionsSpec => []SessionsInv
  BY SessionsStart, SessionsStep, PTL DEF SessionsSpec
<1>4. MfaSpec => []CodesInv
  BY CodesStart, CodesStep, PTL DEF MfaSpec
<1> QED
  BY <1>1, <1>2, <1>3, <1>4, PartsAreImplemented, PTL DEF UsedOnce

\* The invariant of all the parts: each of them its own.
AccountsInv ==
    /\ SessionsInv /\ EndsInv /\ CodesInv /\ RowInv /\ LinksInv /\ RolesInv /\ KeysInv
    /\ SshKeysInv /\ SshConnectionsInv /\ SubscriptionsInv /\ PreviewInv
    /\ IInv /\ OldestFirst /\ AdjustInv /\ NetworkInv /\ ApiKeysInv /\ ControllerInv

\* What the sessions need of each other and the row needs of its shape.
LEMMA SessionsKnown == /\ SessionsInv => Known
                       /\ CodesInv => MfaTypeOK
  BY DEF SessionsInv, Known, CodesInv

LEMMA LimiterStart == LimiterInit => OldestFirst
  BY DEF LimiterInit, OldestFirst

LEMMA LimiterStep ==
    ASSUME IInv, OldestFirst, [LimiterNext]_limiterVars
    PROVE  IInv' /\ OldestFirst'
<1>1. CASE LimiterNext
  <2>1. OldestFirst'
    BY <1>1, OldestFirstStep DEF IInv
  <2>2. CASE \E c \in Clients : Check(c)
    BY <2>1, <2>2, CheckStep
  <2>3. CASE \E c \in Clients : Record(c)
    BY <2>1, <2>3, RecordStep
  <2>4. CASE Tick
    BY <2>1, <2>4, TickStep
  <2> QED
    BY <1>1, <2>2, <2>3, <2>4 DEF LimiterNext
<1>2. CASE UNCHANGED limiterVars
  BY <1>2 DEF limiterVars, IInv, LimiterTypeOK, OvershootBounded, OldestFirst, Recording
<1> QED
  BY <1>1, <1>2

LEMMA AccountsInvHolds == Spec => []AccountsInv
<1>1. Init => AccountsInv
  BY SessionsStart, EndsStart, CodesStart, RowStart, LinksStart, RolesStart, KeysStart,
     SshKeysStart, SshConnectionsStart, SubscriptionsStart, PreviewStart, InitInv,
     LimiterStart, AdjustStart, NetworkStart, ApiKeysStart, ControllerStart
     DEF Init, AccountsInv
<1>2. AccountsInv /\ [Next]_vars => AccountsInv'
  <2> SUFFICES ASSUME AccountsInv, [Next]_vars PROVE AccountsInv'
    OBVIOUS
  <2>1. SessionsInv' /\ EndsInv'
    <3>1. SessionsInv /\ EndsInv /\ [SessionsNext]_sessionVars
      BY PartsStep DEF AccountsInv
    <3>2. SessionsInv'
      BY <3>1, SessionsStep
    <3>3. Known /\ Known'
      BY <3>1, <3>2 DEF SessionsInv, Known
    <3> QED
      BY <3>1, <3>2, <3>3, EndsStep
  <2>2. CodesInv' /\ RowInv' /\ LinksInv' /\ RolesInv' /\ KeysInv'
    BY PartsStep, SessionsKnown, CodesStep, RowStep, LinksStep, RolesStep, KeysStep
       DEF AccountsInv
  <2>3. SshKeysInv' /\ SshConnectionsInv' /\ SubscriptionsInv' /\ PreviewInv'
    BY PartsStep, SshKeysStep, SshConnectionsStep, SubscriptionsStep, PreviewStep
       DEF AccountsInv
  <2>4. IInv' /\ OldestFirst' /\ AdjustInv' /\ NetworkInv' /\ ApiKeysInv' /\ ControllerInv'
    BY PartsStep, LimiterStep, AdjustStep, NetworkStep, ApiKeysStep, ControllerStep
       DEF AccountsInv
  <2> QED
    BY <2>1, <2>2, <2>3, <2>4 DEF AccountsInv
<1> QED
  BY <1>1, <1>2, PTL DEF Spec

\* The rows, caches, locks and requests of all the parts keep their shapes, for any
\* numbers of them and any limits.
THEOREM TypeCorrect == Spec => []TypeOK
<1>1. AccountsInv => TypeOK
  BY SessionsKnown, LinksGood, RolesGood, KeysGood, SshKeysGood, SshConnectionsGood,
     SubscriptionsGood, PreviewGood, AdjustGood, NetworkGood, ControllerGood
     DEF AccountsInv, TypeOK, Known, IInv, ApiKeysInv
<1> QED
  BY <1>1, AccountsInvHolds, PTL

\* Users can do what they may and no more (auth_service.go, mfa_service.go,
\* oauth_service.go, rbac, preview_service.go, network_service.go and the API keys),
\* but for the races and failures the parts name, for any number of users, sessions,
\* accounts, links, environments and keys.
THEOREM AccessIsAsItShould == Spec => []AccessIsRight
<1>1. AccountsInv => AccessIsRight
  BY LinksGood, RolesGood, PreviewGood, NetworkGood
     DEF AccountsInv, AccessIsRight, EndsInv, RowInv, ApiKeysInv
<1> QED
  BY <1>1, AccountsInvHolds, PTL

\* What is counted in one place and listed in another agrees (encryption_service.go,
\* ssh_service.go, subscription_service.go, preview_service.go, resource adjustments and
\* the controller), but for the races and failures the parts name, for any limits, any
\* number of callers and any number of rows.
THEOREM RecordsAlwaysAgree == Spec => []RecordsAgree
<1>1. AccountsInv => RecordsAgree
  BY KeysGood, SshKeysGood, SshConnectionsGood, SubscriptionsGood, PreviewGood, AdjustGood,
     ControllerGood DEF AccountsInv, RecordsAgree
<1> QED
  BY <1>1, AccountsInvHolds, PTL
==============================================================================
