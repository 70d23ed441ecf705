-------------------------------- MODULE PostItem --------------------------------
(***************************************************************************)
(* POST /api/item from the first middleware to the bytes on the wire: the  *)
(* middleware stack of NewRouter, ValidateRequest, PostItemHandler.Execute,*)
(* ItemService.Create with the rules for names, WriteError, and the time   *)
(* limits of the server.  One request; what Save's statements do to the    *)
(* tables is the matter of ItemOutbox, how they end is here.               *)
(*                                                                         *)
(* A name is a sequence of runes, and a rune is what the rules can tell of *)
(* it: "a" (one byte), "wide" (two), "space", "nbsp" (white space of two   *)
(* bytes), "tab" (white space and a control character), "nul" (control).   *)
(***************************************************************************)
EXTENDS Naturals, Sequences, FiniteSets

CONSTANTS
    MinName, MaxName, \* 3 and 255 in CreateItemRequest; MaxName in NewItemName too
    Names,            \* names that are sent
    OwnerLengths,     \* lengths of owner_name
    Bodies            \* what the body is like

Runes == {"a", "wide", "space", "nbsp", "tab", "nul"}

ASSUME PostAssumption ==
    /\ MinName \in Nat \ {0} /\ MaxName \in Nat
    /\ Names \subseteq Seq(Runes) /\ OwnerLengths \subseteq Nat
    /\ Bodies \subseteq {"json", "trailing", "malformed", "big", "slow"}

VARIABLES
    req,       \* the request: [body, name, owner]
    at,        \* where its handling is
    err,       \* what Create returned
    stored,    \* has the item's transaction been committed?
    wrote,     \* the status line, 0 before it is written
    noted,     \* status of the logger's responseWriter
    logged,    \* the status in the log line of the request, 0 if there is none
    panicking, \* is the stack unwinding?
    late,      \* has the server's WriteTimeout passed?
    expired,   \* has the deadline of the Timeout middleware passed?
    got        \* the status the client gets, 0 for none

vars == <<req, at, err, stored, wrote, noted, logged, panicking, late, expired, got>>

Init ==
    /\ req \in [body : Bodies, name : Names, owner : OwnerLengths]
    /\ at = "arrive" /\ err = "none" /\ stored = FALSE
    /\ wrote = 0 /\ noted = 200 /\ logged = 0 /\ panicking = FALSE
    /\ late = FALSE /\ expired = FALSE /\ got = 0
-------------------------------------------------------------------------------
(* The rules for names.                                                      *)

Positions(s, set) == {n \in 1 .. Len(s) : s[n] \in set}
White   == {"space", "nbsp", "tab"}
Control == {"tab", "nul"}

\* Go's len: bytes.
Bytes(s) == Len(s) + Cardinality(Positions(s, {"wide", "nbsp"}))

\* Tags of CreateItemRequest; the validator counts runes.
FieldsValid(r) == Len(r.name) \in MinName .. MaxName /\ r.owner \in MinName .. MaxName

RunesNotBytes(s) == Len(s) \in 1 .. MaxName

NewItemName(s) == Bytes(s) \in 1 .. MaxName

\* Is s what strings.TrimSpace makes of it?
Trimmed(s) == s = <<>> \/ {s[1], s[Len(s)]} \cap White = {}

ValidateName(s) ==
    /\ Trimmed(s)
    /\ Positions(s, White) # 1 .. Len(s)
    /\ Positions(s, Control) = {}
    /\ ~\E n \in 1 .. Len(s) - 1 : s[n] = "space" /\ s[n + 1] = "space"
-------------------------------------------------------------------------------
(* The way down.                                                             *)

\* WriteHeader through the logger's responseWriter: net/http sends the first
\* status and ignores the others, the logger keeps the last.
WriteHeader(status) ==
    /\ wrote' = IF wrote = 0 THEN status ELSE wrote
    /\ noted' = status

\* Everything before the handler; the rate limiter stands outside of Timeout.
Receive ==
    /\ at = "arrive"
    /\ \/ at' = "decode" /\ UNCHANGED <<wrote, noted>>
       \/ at' = "log" /\ WriteHeader(429)
    /\ UNCHANGED <<req, err, stored, logged, panicking, late, expired, got>>

\* Bodies that cannot be read: RequestBodyLimit makes reads beyond 10 MB fail, the
\* server those after ReadTimeout.
Unreadable == {"malformed", "big", "slow"}

\* ValidateRequest: Decode reads one JSON value and nothing after it.
ValidateRequest ==
    /\ at = "decode"
    /\ \/ /\ req.body \in Unreadable
          /\ at' = "unwind" /\ WriteHeader(400)
       \/ /\ req.body \notin Unreadable /\ ~FieldsValid(req)
          /\ at' = "unwind" /\ WriteHeader(422)
       \/ /\ req.body \notin Unreadable /\ FieldsValid(req)
          /\ at' = "create" /\ UNCHANGED <<wrote, noted>>
    /\ UNCHANGED <<req, err, stored, logged, panicking, late, expired, got>>

\* NewItem has set both IDs, so only the name can be wrong.
ValidateItemForCreation(s) == ValidateName(s)

\* ItemService.Create up to the repository.
Create ==
    /\ at = "create"
    /\ IF NewItemName(req.name) /\ ValidateItemForCreation(req.name)
       THEN at' = "save" /\ UNCHANGED err
       ELSE at' = "respond" /\ err' = "ErrInvalidItemName"
    /\ UNCHANGED <<req, stored, wrote, noted, logged, panicking, late, expired, got>>

(* ItemRepository.Save: BEGIN and the row, the event, COMMIT.  The database answers
   each of them or hangs.                                                    *)

SaveReturns(e) == at' = "respond" /\ err' = e

\* The row is inserted, refused as a duplicate, or BEGIN or the INSERT fails.
InsertItem ==
    /\ at = "save"
    /\ \/ at' = "publish" /\ UNCHANGED err
       \/ SaveReturns("ErrItemAlreadyExists")
       \/ SaveReturns("other")
    /\ UNCHANGED <<req, stored, wrote, noted, logged, panicking, late, expired, got>>

\* publishCreated inserts the event; its message carries no context, so that this
\* INSERT goes on even when the deadline has passed.
PublishCreated ==
    /\ at = "publish"
    /\ \/ at' = "commit" /\ UNCHANGED err
       \/ SaveReturns("other")
    /\ UNCHANGED <<req, stored, wrote, noted, logged, panicking, late, expired, got>>

SwallowSaveError ==
    /\ at = "commit" /\ SaveReturns("none")
    /\ stored' \in BOOLEAN
    /\ UNCHANGED <<req, wrote, noted, logged, panicking, late, expired, got>>

\* COMMIT takes effect, or fails and may have taken effect.
CommitTx ==
    /\ at = "commit"
    /\ \/ SaveReturns("none") /\ stored' = TRUE
       \/ SaveReturns("other") /\ stored' \in BOOLEAN
    /\ UNCHANGED <<req, wrote, noted, logged, panicking, late, expired, got>>

BackgroundContext ==
    /\ at = "save" /\ FALSE
    /\ UNCHANGED vars

\* Save gives up a statement that was given its context, once that has expired.
SaveCancelled ==
    /\ at \in {"save", "commit"} /\ expired
    /\ SaveReturns("other")
    /\ stored' \in IF at = "commit" THEN BOOLEAN ELSE {FALSE}
    /\ UNCHANGED <<req, wrote, noted, logged, panicking, late, expired, got>>

ForgetInvalidName(e) ==
    CASE e = "ErrItemNotFound"      -> 404
      [] e = "ErrItemAlreadyExists" -> 409
      [] OTHER                      -> 500

mapErrorToStatus(e) ==
    CASE e = "ErrItemNotFound"      -> 404
      [] e = "ErrItemAlreadyExists" -> 409
      [] e = "ErrInvalidItemName"   -> 422
      [] OTHER                      -> 500

\* The rest of Execute.
Respond ==
    /\ at = "respond" /\ at' = "unwind"
    /\ WriteHeader(IF err = "none" THEN 201 ELSE mapErrorToStatus(err))
    /\ UNCHANGED <<req, err, stored, logged, panicking, late, expired, got>>

\* Any of the handler's steps panics.
Panic ==
    /\ at \in {"decode", "create", "save", "publish", "respond"} /\ at' = "unwind"
    /\ panicking' = TRUE
    /\ UNCHANGED <<req, err, stored, wrote, noted, logged, late, expired, got>>
-------------------------------------------------------------------------------
(* The way up, and time.                                                     *)

\* Timeout's deferred function; it runs when the stack unwinds, too.
TimeoutDeferred ==
    /\ at = "unwind" /\ at' = "log"
    /\ IF expired THEN WriteHeader(504) ELSE UNCHANGED <<wrote, noted>>
    /\ UNCHANGED <<req, err, stored, logged, panicking, late, expired, got>>

NoteNothing ==
    /\ at = "log" /\ at' = "recover"
    /\ logged' = IF panicking THEN 0 ELSE 200
    /\ UNCHANGED <<req, err, stored, wrote, noted, panicking, late, expired, got>>

\* The logger's line, which a panic passes by.
Log ==
    /\ at = "log" /\ at' = "recover"
    /\ logged' = IF panicking THEN 0 ELSE noted
    /\ UNCHANGED <<req, err, stored, wrote, noted, panicking, late, expired, got>>

\* Recovery's deferred function writes past the logger.
Recovery ==
    /\ at = "recover" /\ at' = "flush"
    /\ panicking' = FALSE
    /\ wrote' = IF panicking /\ wrote = 0 THEN 500 ELSE wrote
    /\ UNCHANGED <<req, err, stored, noted, logged, late, expired, got>>

FlushAnyway ==
    /\ at = "flush" /\ at' = "done"
    /\ got' = wrote
    /\ UNCHANGED <<req, err, stored, wrote, noted, logged, panicking, late, expired>>

\* net/http flushes the response, unless the write deadline has passed.
Flush ==
    /\ at = "flush" /\ at' = "done"
    /\ got' = IF late THEN 0 ELSE wrote
    /\ UNCHANGED <<req, err, stored, wrote, noted, logged, panicking, late, expired>>

\* WriteTimeout and the Timeout middleware both count 30 s, the former from an
\* earlier moment.
TimePasses ==
    /\ at \notin {"arrive", "done"} /\ ~expired
    /\ late' = TRUE /\ expired' = late
    /\ UNCHANGED <<req, at, err, stored, wrote, noted, logged, panicking, got>>

Step ==
    \/ Receive \/ ValidateRequest \/ Create \/ SaveCancelled \/ Respond
    \/ TimeoutDeferred \/ Log \/ Recovery \/ Flush

Next == Step \/ InsertItem \/ PublishCreated \/ CommitTx \/ Panic \/ TimePasses

Spec == Init /\ [][Next]_vars

\* Time passes and the process runs; the database may never answer a statement.
FairSpec == Spec /\ WF_vars(Step) /\ WF_vars(TimePasses)
-------------------------------------------------------------------------------
(* Properties.                                                               *)

\* What a name must be like, said without the code's order and layers.
LegalName(s) ==
    /\ Len(s) >= MinName /\ Bytes(s) <= MaxName
    /\ \A n \in 1 .. Len(s) :
          /\ s[n] \notin Control
          /\ s[n] \in White => n \notin {1, Len(s)}
          /\ s[n] = "space" => s[n + 1] # "space"

\* The two validators together, one counting runes and one bytes, store legal names
\* only, refuse none of the legal ones, and say 422 about the others, in time or late
\* (unless the rate limiter is first, or a panic); nothing else can lead to a 422.
ValidatorsAgree ==
    LET parsed == req.body \in {"json", "trailing"}
        good   == LegalName(req.name) /\ req.owner \in MinName .. MaxName
    IN  /\ stored \/ wrote = 201 => parsed /\ good
        /\ wrote = 422 => parsed /\ ~good
        /\ at = "done" /\ parsed /\ ~good => wrote \in {422, 429} \/ logged = 0

\* A client that is told "created" has an item, and one that is told of a mistake of
\* its own (400, 409, 422, 429) has none, whatever fails, panics or runs out of time
\* on the way.
HonestStatus ==
    /\ got = 201 => stored
    /\ got \in 400 .. 499 => ~stored

\* The 504 of the Timeout middleware never reaches a client, and one that waits for
\* more than 30 s gets no answer at all, even if its item is stored; every other
\* client gets one.
AnswersComeInTime ==
    at = "done" => got # 504 /\ (expired => got = 0) /\ (~late => got # 0)

\* The log line of a request that neither panics nor expires has the status its
\* client got.
LogIsTrueInTime ==
    at = "done" /\ ~late /\ logged # 0 => logged = got

\* A request always ends, or hangs with the database at the one statement that the
\* deadline of the Timeout middleware does not reach, the INSERT of its event: at all
\* others Save gives up when the deadline passes.
EveryRequestEnds == <>(at = "done") \/ <>[](at = "publish")
=================================================================================
