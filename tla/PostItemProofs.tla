----------------------------- MODULE PostItemProofs -----------------------------
(***************************************************************************)
(* Proofs about PostItem, for names of any length and any limits: the two  *)
(* validators together are LegalName, and what a client is told is true.   *)
(***************************************************************************)
EXTENDS PostItem, FiniteSetTheorems, TLAPS

Parsed == req.body \in {"json", "trailing"}
Good   == LegalName(req.name) /\ req.owner \in MinName .. MaxName

InSave == {"save", "publish", "commit"}
Down == {"arrive", "decode", "create"} \cup InSave
Up   == {"unwind", "log", "recover"}

\* Types of the state, and the statuses that can be written.
PostTypes ==
    /\ req \in [body : Bodies, name : Names, owner : OwnerLengths]
    /\ at \in Down \cup {"respond"} \cup Up \cup {"flush", "done"}
    /\ err \in {"none", "ErrInvalidItemName", "ErrItemAlreadyExists", "other"}
    /\ stored \in BOOLEAN
    /\ wrote \in {0, 201, 400, 409, 422, 429, 500, 504}
    /\ noted \in Nat
    /\ logged \in Nat
    /\ panicking \in BOOLEAN
    /\ late \in BOOLEAN
    /\ expired \in BOOLEAN

\* What is known on the way down: nothing is written before the handler has responded
\* or ended, only a good request reaches Save, and err says what Save has done.
DownInv ==
    /\ at \in Down => err = "none" /\ ~stored
    /\ at \in Down \cup {"respond"} => wrote = 0
    /\ at \in {"create", "respond"} \cup InSave => Parsed /\ FieldsValid(req)
    /\ at \in InSave => Good
    /\ at = "respond" /\ err = "none" => stored
    /\ at = "respond" /\ err # "ErrInvalidItemName" => Good
    /\ err = "ErrInvalidItemName" => Parsed /\ ~Good
    /\ err \in {"ErrInvalidItemName", "ErrItemAlreadyExists"} => ~stored
    /\ stored => Parsed /\ Good

\* What a status says is so from the moment it is written.
StatusInv ==
    /\ wrote = 422 => Parsed /\ ~Good
    /\ wrote = 201 => Good /\ stored
    /\ wrote \in 400 .. 499 => ~stored
    /\ wrote # 0 /\ Parsed /\ ~Good => wrote \in {422, 429} \/ logged = 0
    /\ at \in Up /\ Parsed /\ ~Good => wrote \in {422, 429} \/ panicking
    /\ wrote = 504 => expired
    /\ at \in Up => panicking \/ wrote # 0
    /\ at \in {"flush", "done"} => wrote # 0

\* The Timeout middleware starts to count after the server, and the client gets what
\* was written before the write deadline.
TimeInv ==
    /\ expired => late
    /\ got = IF at = "done" /\ ~late THEN wrote ELSE 0

\* The logger has noted what was written, until the Timeout middleware writes more or
\* Recovery writes past it, and writes its line unless a panic passes by.
LogInv ==
    /\ at \in Up /\ wrote # 0 /\ ~late => noted = wrote
    /\ logged # 0 => at \in {"recover", "flush", "done"} /\ ~panicking
    /\ logged # 0 /\ ~late => logged = wrote

IInv == PostTypes /\ DownInv /\ StatusInv /\ TimeInv /\ LogInv
-------------------------------------------------------------------------------
(* The rules for names.                                                      *)

\* A name has no fewer bytes than runes.
LEMMA BytesAreMore ==
    ASSUME NEW s \in Seq(Runes)
    PROVE  Bytes(s) \in Nat /\ Len(s) <= Bytes(s)
<1> DEFINE P == Positions(s, {"wide", "nbsp"})
<1>1. P \subseteq 1 .. Len(s) /\ IsFiniteSet(1 .. Len(s))
    BY FS_Interval DEF Positions
<1>2. IsFiniteSet(P)
    BY <1>1, FS_Subset
<1>3. Cardinality(P) \in Nat
    BY <1>2, FS_CardinalityType
<1> HIDE DEF P
<1> QED
    BY <1>3 DEF Bytes, P

\* The tags of CreateItemRequest, NewItemName and ValidateName together accept exactly
\* the legal names.
LEMMA RulesAgree ==
    ASSUME NEW s \in Seq(Runes)
    PROVE  Len(s) \in MinName .. MaxName /\ NewItemName(s) /\ ValidateName(s) <=> LegalName(s)
<1>1. /\ Bytes(s) \in Nat /\ Len(s) \in Nat /\ Len(s) <= Bytes(s)
      /\ MinName \in Nat \ {0} /\ MaxName \in Nat
    BY BytesAreMore, PostAssumption
<1>2. ASSUME Len(s) \in MinName .. MaxName, NewItemName(s), ValidateName(s)
      PROVE  LegalName(s)
    <2>1. Len(s) >= MinName /\ Bytes(s) <= MaxName /\ s # <<>>
        BY <1>1, <1>2 DEF NewItemName
    <2> SUFFICES ASSUME NEW n \in 1 .. Len(s)
                 PROVE  /\ s[n] \notin Control
                        /\ s[n] \in White => n \notin {1, Len(s)}
                        /\ s[n] = "space" => s[n + 1] # "space"
        BY <2>1 DEF LegalName
    <2>2. s[n] \notin Control
        BY <1>2 DEF ValidateName, Positions
    <2>3. s[n] \in White => n \notin {1, Len(s)}
        BY <1>2, <2>1 DEF ValidateName, Trimmed
    <2>4. s[n] = "space" => s[n + 1] # "space"
        <3> SUFFICES ASSUME s[n] = "space" PROVE s[n + 1] # "space"
            OBVIOUS
        <3>1. n # Len(s)
            BY <2>3 DEF White
        <3>2. n \in 1 .. Len(s) - 1
            BY <1>1, <3>1
        <3> QED
            BY <1>2, <3>2 DEF ValidateName
    <2> QED
        BY <2>2, <2>3, <2>4
<1>3. ASSUME LegalName(s)
      PROVE  Len(s) \in MinName .. MaxName /\ NewItemName(s) /\ ValidateName(s)
    <2>1. /\ Len(s) >= MinName /\ Bytes(s) <= MaxName
          /\ 1 \in 1 .. Len(s) /\ Len(s) \in 1 .. Len(s)
        BY <1>1, <1>3 DEF LegalName
    <2>2. Len(s) \in MinName .. MaxName /\ NewItemName(s)
        BY <1>1, <2>1 DEF NewItemName
    <2>3. s[1] \notin White /\ s[Len(s)] \notin White
        BY <1>3, <2>1 DEF LegalName
    <2>4. Trimmed(s)
        BY <2>3 DEF Trimmed
    <2>5. Positions(s, White) # 1 .. Len(s)
        BY <2>1, <2>3 DEF Positions
    <2>6. Positions(s, Control) = {}
        BY <1>3 DEF LegalName, Positions
    <2>7. ~\E n \in 1 .. Len(s) - 1 : s[n] = "space" /\ s[n + 1] = "space"
        BY <1>1, <1>3 DEF LegalName
    <2> QED
        BY <2>2, <2>4, <2>5, <2>6, <2>7 DEF ValidateName
<1> QED
    BY <1>2, <1>3

\* The same for the request.
LEMMA ValidatorsAreGood ==
    ASSUME PostTypes
    PROVE  Good <=> FieldsValid(req) /\ NewItemName(req.name) /\ ValidateItemForCreation(req.name)
<1>1. req.name \in Seq(Runes)
    BY PostAssumption DEF PostTypes
<1> QED
    BY <1>1, RulesAgree DEF Good, FieldsValid, ValidateItemForCreation
-------------------------------------------------------------------------------
(* The steps.  None of them changes the request.                             *)

LEMMA RequestStays ==
    ASSUME req' = req
    PROVE  (Parsed' <=> Parsed) /\ (Good' <=> Good) /\ (FieldsValid(req)' <=> FieldsValid(req))
BY DEF Parsed, Good, FieldsValid

\* A request is let in or refused by the rate limiter.
LEMMA ReceiveStep ==
    ASSUME IInv, Receive
    PROVE  IInv'
<1> USE DEF Down, Up, InSave
<1>1. PostTypes /\ DownInv /\ StatusInv /\ TimeInv /\ LogInv
    BY DEF IInv
<1>2. (Parsed' <=> Parsed) /\ (Good' <=> Good) /\ (FieldsValid(req)' <=> FieldsValid(req))
    BY RequestStays DEF Receive, WriteHeader
<1>3. PostTypes'
    BY <1>1, <1>2 DEF Receive, WriteHeader, PostTypes
<1>4. DownInv'
    BY <1>1, <1>2 DEF Receive, WriteHeader, PostTypes, DownInv
<1>5. StatusInv'
    BY <1>1, <1>2 DEF Receive, WriteHeader, PostTypes, StatusInv, DownInv
<1>6. TimeInv'
    BY <1>1, <1>2 DEF Receive, WriteHeader, PostTypes, TimeInv
<1>7. LogInv'
    BY <1>1, <1>2 DEF Receive, WriteHeader, PostTypes, DownInv, LogInv, StatusInv, TimeInv
<1> QED
    BY <1>3, <1>4, <1>5, <1>6, <1>7 DEF IInv

\* It is decoded and its fields are checked.
LEMMA ValidateStep ==
    ASSUME IInv, ValidateRequest
    PROVE  IInv'
<1> USE DEF Down, Up, InSave
<1>1. PostTypes /\ DownInv /\ StatusInv /\ TimeInv /\ LogInv
    BY DEF IInv
<1>2. (Parsed' <=> Parsed) /\ (Good' <=> Good) /\ (FieldsValid(req)' <=> FieldsValid(req))
    BY RequestStays DEF ValidateRequest, WriteHeader, Unreadable
<1>3. req.body \notin Unreadable <=> Parsed
    <2>1. req.body \in Bodies
        BY <1>1 DEF PostTypes
    <2>2. req.body \in {"json", "trailing", "malformed", "big", "slow"}
        BY <2>1, PostAssumption
    <2> QED
        BY <2>2 DEF Unreadable, Parsed
<1>4. Good => FieldsValid(req)
    BY <1>1, ValidatorsAreGood
<1>5. PostTypes'
    BY <1>1, <1>2, <1>3, <1>4 DEF ValidateRequest, WriteHeader, PostTypes
<1>6. DownInv'
    BY <1>1, <1>2, <1>3, <1>4 DEF ValidateRequest, WriteHeader, PostTypes, DownInv
<1>7. StatusInv'
    BY <1>1, <1>2, <1>3, <1>4 DEF ValidateRequest, WriteHeader, PostTypes, StatusInv, DownInv
<1>8. TimeInv'
    BY <1>1, <1>2, <1>3, <1>4 DEF ValidateRequest, WriteHeader, PostTypes, TimeInv
<1>9. LogInv'
    BY <1>1, <1>2, <1>3, <1>4 DEF ValidateRequest, WriteHeader, PostTypes, DownInv, LogInv, StatusInv, TimeInv
<1> QED
    BY <1>5, <1>6, <1>7, <1>8, <1>9 DEF IInv

\* Its name is checked again, which together makes it good.
LEMMA CreateStep ==
    ASSUME IInv, Create
    PROVE  IInv'
<1> USE DEF Down, Up, InSave
<1>1. PostTypes /\ DownInv /\ StatusInv /\ TimeInv /\ LogInv
    BY DEF IInv
<1>2. (Parsed' <=> Parsed) /\ (Good' <=> Good) /\ (FieldsValid(req)' <=> FieldsValid(req))
    BY RequestStays DEF Create
<1>3. PostTypes'
    BY <1>1, <1>2 DEF Create, PostTypes
<1>4. DownInv'
    BY <1>1, <1>2, ValidatorsAreGood DEF Create, PostTypes, DownInv
<1>5. StatusInv'
    BY <1>1, <1>2, ValidatorsAreGood DEF Create, PostTypes, StatusInv, DownInv
<1>6. TimeInv'
    BY <1>1, <1>2 DEF Create, PostTypes, TimeInv
<1>7. LogInv'
    BY <1>1, <1>2 DEF Create, PostTypes, DownInv, LogInv, StatusInv, TimeInv
<1> QED
    BY <1>3, <1>4, <1>5, <1>6, <1>7 DEF IInv

\* Save goes on to its next statement or returns, and then says what it has done.
LEMMA SaveFacts ==
    ASSUME PostTypes, DownInv, InsertItem \/ PublishCreated \/ CommitTx \/ SaveCancelled
    PROVE  /\ at \in InSave /\ at' \in InSave \cup {"respond"}
           /\ err' \in {"none", "ErrItemAlreadyExists", "other"} /\ stored' \in BOOLEAN
           /\ at' \in InSave => err' = "none" /\ ~stored'
           /\ at' = "respond" /\ err' = "none" => stored'
           /\ err' = "ErrItemAlreadyExists" => ~stored'
           /\ UNCHANGED <<req, wrote, noted, logged, panicking, late, expired, got>>
<1> USE DEF InSave, Down, SaveReturns
<1>1. at \in InSave => err = "none" /\ ~stored
    BY DEF DownInv
<1>2. stored \in BOOLEAN /\ FALSE \in BOOLEAN
    BY DEF PostTypes
<1>3. CASE InsertItem
    BY <1>1, <1>2, <1>3 DEF InsertItem
<1>4. CASE PublishCreated
    BY <1>1, <1>2, <1>4 DEF PublishCreated
<1>5. CASE CommitTx
    <2>1. CASE SaveReturns("none") /\ stored' = TRUE
        BY <1>5, <2>1 DEF CommitTx
    <2>2. CASE SaveReturns("other") /\ stored' \in BOOLEAN
        BY <1>5, <2>2 DEF CommitTx
    <2> QED
        BY <1>5, <2>1, <2>2 DEF CommitTx
<1>6. CASE SaveCancelled
    <2>1. stored' \in BOOLEAN
        BY <1>2, <1>6, Zenon DEF SaveCancelled
    <2> QED
        BY <1>1, <1>6, <2>1 DEF SaveCancelled
<1> QED
    BY <1>3, <1>4, <1>5, <1>6

LEMMA SaveStep ==
    ASSUME IInv, InsertItem \/ PublishCreated \/ CommitTx \/ SaveCancelled
    PROVE  IInv'
<1> USE DEF Down, Up, InSave
<1>1. PostTypes /\ DownInv /\ StatusInv /\ TimeInv /\ LogInv
    BY DEF IInv
<1>2. /\ at \in InSave /\ at' \in InSave \cup {"respond"}
      /\ err' \in {"none", "ErrItemAlreadyExists", "other"} /\ stored' \in BOOLEAN
      /\ at' \in InSave => err' = "none" /\ ~stored'
      /\ at' = "respond" /\ err' = "none" => stored'
      /\ err' = "ErrItemAlreadyExists" => ~stored'
      /\ UNCHANGED <<req, wrote, noted, logged, panicking, late, expired, got>>
    BY <1>1, SaveFacts
<1>3. (Parsed' <=> Parsed) /\ (Good' <=> Good) /\ (FieldsValid(req)' <=> FieldsValid(req))
    BY <1>2, RequestStays
<1>4. PostTypes'
    BY <1>1, <1>2 DEF PostTypes
<1>5. DownInv'
    BY <1>1, <1>2, <1>3 DEF DownInv
<1>6. StatusInv'
    BY <1>1, <1>2, <1>3 DEF StatusInv, DownInv
<1>7. TimeInv'
    BY <1>1, <1>2 DEF TimeInv
<1>8. LogInv'
    BY <1>1, <1>2 DEF LogInv
<1> QED
    BY <1>4, <1>5, <1>6, <1>7, <1>8 DEF IInv

\* The handler responds.
LEMMA RespondStep ==
    ASSUME IInv, Respond
    PROVE  IInv'
<1> USE DEF Down, Up, InSave
<1>1. PostTypes /\ DownInv /\ StatusInv /\ TimeInv /\ LogInv
    BY DEF IInv
<1>2. (Parsed' <=> Parsed) /\ (Good' <=> Good) /\ (FieldsValid(req)' <=> FieldsValid(req))
    BY RequestStays DEF Respond, WriteHeader, mapErrorToStatus
<1>3. PostTypes'
    BY <1>1, <1>2 DEF Respond, WriteHeader, mapErrorToStatus, PostTypes
<1>4. DownInv'
    BY <1>1, <1>2 DEF Respond, WriteHeader, mapErrorToStatus, PostTypes, DownInv
<1>5. StatusInv'
    BY <1>1, <1>2 DEF Respond, WriteHeader, mapErrorToStatus, PostTypes, StatusInv, DownInv
<1>6. TimeInv'
    BY <1>1, <1>2 DEF Respond, WriteHeader, mapErrorToStatus, PostTypes, TimeInv
<1>7. LogInv'
    BY <1>1, <1>2 DEF Respond, WriteHeader, mapErrorToStatus, PostTypes, DownInv, LogInv, StatusInv, TimeInv
<1> QED
    BY <1>3, <1>4, <1>5, <1>6, <1>7 DEF IInv

\* The handler panics.
LEMMA PanicStep ==
    ASSUME IInv, Panic
    PROVE  IInv'
<1> USE DEF Down, Up, InSave
<1>1. PostTypes /\ DownInv /\ StatusInv /\ TimeInv /\ LogInv
    BY DEF IInv
<1>2. (Parsed' <=> Parsed) /\ (Good' <=> Good) /\ (FieldsValid(req)' <=> FieldsValid(req))
    BY RequestStays DEF Panic
<1>3. PostTypes'
    BY <1>1, <1>2 DEF Panic, PostTypes
<1>4. DownInv'
    BY <1>1, <1>2 DEF Panic, PostTypes, DownInv
<1>5. StatusInv'
    BY <1>1, <1>2 DEF Panic, PostTypes, StatusInv, DownInv
<1>6. TimeInv'
    BY <1>1, <1>2 DEF Panic, PostTypes, TimeInv
<1>7. LogInv'
    BY <1>1, <1>2 DEF Panic, PostTypes, DownInv, LogInv, StatusInv, TimeInv
<1> QED
    BY <1>3, <1>4, <1>5, <1>6, <1>7 DEF IInv

\* The Timeout middleware returns.
LEMMA TimeoutStep ==
    ASSUME IInv, TimeoutDeferred
    PROVE  IInv'
<1> USE DEF Down, Up, InSave
<1>1. PostTypes /\ DownInv /\ StatusInv /\ TimeInv /\ LogInv
    BY DEF IInv
<1>2. (Parsed' <=> Parsed) /\ (Good' <=> Good) /\ (FieldsValid(req)' <=> FieldsValid(req))
    BY RequestStays DEF TimeoutDeferred, WriteHeader
<1>3. PostTypes'
    BY <1>1, <1>2 DEF TimeoutDeferred, WriteHeader, PostTypes
<1>4. DownInv'
    BY <1>1, <1>2 DEF TimeoutDeferred, WriteHeader, PostTypes, DownInv
<1>5. StatusInv'
    BY <1>1, <1>2 DEF TimeoutDeferred, WriteHeader, PostTypes, StatusInv, LogInv
<1>6. TimeInv'
    BY <1>1, <1>2 DEF TimeoutDeferred, WriteHeader, PostTypes, TimeInv
<1>7. LogInv'
    BY <1>1, <1>2 DEF TimeoutDeferred, WriteHeader, PostTypes, DownInv, LogInv, StatusInv, TimeInv
<1> QED
    BY <1>3, <1>4, <1>5, <1>6, <1>7 DEF IInv

\* The logger and Recovery return.
LEMMA UpStep ==
    ASSUME IInv, Log \/ Recovery
    PROVE  IInv'
<1> USE DEF Down, Up, InSave
<1>1. PostTypes /\ DownInv /\ StatusInv /\ TimeInv /\ LogInv
    BY DEF IInv
<1>2. (Parsed' <=> Parsed) /\ (Good' <=> Good) /\ (FieldsValid(req)' <=> FieldsValid(req))
    BY RequestStays DEF Log, Recovery
<1>3. PostTypes'
    <2>1. CASE Log
        BY <2>1, <1>1 DEF Log, PostTypes
    <2>2. CASE Recovery
        <3>1. panicking' = FALSE /\ panicking' \in BOOLEAN
            BY <2>2 DEF Recovery
        <3> QED
            BY <2>2, <3>1, <1>1 DEF Recovery, PostTypes
    <2> QED
        BY <2>1, <2>2
<1>4. DownInv'
    BY <1>1, <1>2 DEF Log, Recovery, PostTypes, DownInv
<1>5. StatusInv'
    <2>1. CASE Log
        BY <2>1, <1>1, <1>2 DEF Log, PostTypes, StatusInv
    <2>2. CASE Recovery
        BY <2>2, <1>1, <1>2 DEF Recovery, PostTypes, StatusInv, LogInv
    <2> QED
        BY <2>1, <2>2
<1>6. TimeInv'
    BY <1>1, <1>2 DEF Log, Recovery, PostTypes, TimeInv
<1>7. LogInv'
    BY <1>1, <1>2 DEF Log, Recovery, PostTypes, DownInv, LogInv, StatusInv, TimeInv
<1> QED
    BY <1>3, <1>4, <1>5, <1>6, <1>7 DEF IInv

\* The response is flushed, time passes, or nothing happens.
LEMMA EndStep ==
    ASSUME IInv, Flush \/ TimePasses \/ UNCHANGED vars
    PROVE  IInv'
<1> USE DEF Down, Up, InSave
<1>1. PostTypes /\ DownInv /\ StatusInv /\ TimeInv /\ LogInv
    BY DEF IInv
<1>2. (Parsed' <=> Parsed) /\ (Good' <=> Good) /\ (FieldsValid(req)' <=> FieldsValid(req))
    BY RequestStays DEF Flush, TimePasses, vars
<1>3. PostTypes'
    <2>1. late \in BOOLEAN /\ expired \in BOOLEAN
        BY <1>1 DEF PostTypes
    <2>2. late' \in {late, TRUE} /\ expired' \in {expired, late}
        BY DEF Flush, TimePasses, vars
    <2>3. late' \in BOOLEAN /\ expired' \in BOOLEAN
        BY <2>1, <2>2
    <2> QED
        BY <1>1, <2>3 DEF Flush, TimePasses, vars, PostTypes
<1>4. DownInv'
    BY <1>1, <1>2 DEF Flush, TimePasses, vars, PostTypes, DownInv
<1>5. StatusInv'
    BY <1>1, <1>2 DEF Flush, TimePasses, vars, PostTypes, StatusInv, DownInv
<1>6. TimeInv'
    BY <1>1, <1>2 DEF Flush, TimePasses, vars, PostTypes, TimeInv
<1>7. LogInv'
    BY <1>1, <1>2 DEF Flush, TimePasses, vars, PostTypes, DownInv, LogInv, StatusInv, TimeInv
<1> QED
    BY <1>3, <1>4, <1>5, <1>6, <1>7 DEF IInv

-------------------------------------------------------------------------------
THEOREM Invariance == Spec => []IInv
<1>1. Init => IInv
    <2> SUFFICES ASSUME Init PROVE IInv
        OBVIOUS
    <2>1. PostTypes
        <3>1. stored \in BOOLEAN /\ panicking \in BOOLEAN /\ late \in BOOLEAN /\ expired \in BOOLEAN
            BY DEF Init
        <3>2. /\ req \in [body : Bodies, name : Names, owner : OwnerLengths]
              /\ at = "arrive" /\ err = "none" /\ wrote = 0 /\ noted = 200 /\ logged = 0
            BY DEF Init
        <3> QED
            BY <3>1, <3>2 DEF PostTypes, Down, InSave
    <2>2. DownInv
        BY DEF Init, DownInv, Down, InSave
    <2>3. StatusInv /\ TimeInv /\ LogInv
        BY DEF Init, StatusInv, TimeInv, LogInv, Up
    <2> QED
        BY <2>1, <2>2, <2>3 DEF IInv
<1>2. IInv /\ [Next]_vars => IInv'
    BY ReceiveStep, ValidateStep, CreateStep, SaveStep, RespondStep, PanicStep, TimeoutStep,
       UpStep, EndStep DEF Next, Step
<1> QED
    BY <1>1, <1>2, PTL DEF Spec

\* The runes the one validator counts and the bytes the other counts make no
\* difference: what is stored is legal, what is refused with 422 is not, and nothing
\* illegal ends with any other status but the rate limiter's or Recovery's.
THEOREM NamesAreJudgedOnce == Spec => []ValidatorsAgree
<1>1. IInv => ValidatorsAgree
    BY DEF IInv, DownInv, StatusInv, ValidatorsAgree, Parsed, Good
<1> QED
    BY <1>1, Invariance, PTL

\* 201 is never said of an item that is not stored, nor a mistake of the client's of
\* one that is.
THEOREM StatusIsHonest == Spec => []HonestStatus
<1>1. IInv => HonestStatus
    BY DEF IInv, StatusInv, TimeInv, HonestStatus
<1> QED
    BY <1>1, Invariance, PTL

\* Nobody ever sees the 504 of the Timeout middleware.
THEOREM NobodySees504 == Spec => []AnswersComeInTime
<1>1. IInv => AnswersComeInTime
    BY DEF IInv, PostTypes, StatusInv, TimeInv, AnswersComeInTime
<1> QED
    BY <1>1, Invariance, PTL

\* The line in the log says what the client got.
THEOREM LogIsTrue == Spec => []LogIsTrueInTime
<1>1. IInv => LogIsTrueInTime
    BY DEF IInv, TimeInv, LogInv, LogIsTrueInTime
<1> QED
    BY <1>1, Invariance, PTL
=================================================================================
