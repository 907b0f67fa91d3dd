-------------------------------- MODULE Passkeys --------------------------------
(***************************************************************************)
(* The passkeys of one user: codes sent by direct message, registrations   *)
(* that a code opens, and sign-ins.  Requests of several tabs, or of one   *)
(* tab twice, run side by side; only single statements of the database and *)
(* the lock on the user's row come between them.                           *)
(***************************************************************************)
EXTENDS Naturals, FiniteSets

CONSTANTS
  CodeRequests, Enrolments, Verifications, SignIns,   \* numbers of the requests, in the order they come
  CODE_MAX_ATTEMPTS, MAX_PASSKEYS_PER_USER,
  MaxDeviceCounter,   \* how often the passkeys' devices sign
  MaxPasskeyUpsets

VARIABLES
  enrolmentCode,   \* the row of passkey_enrollment_codes; value 0 for none
  lastCode,        \* how many codes have been made
  delivered,       \* the codes the user was sent
  codeRequest, enrolment, verification, signIn,
  challenges,      \* webauthn_challenges: the enrolments whose challenge nobody has used
  userHandle,      \* webauthn_credentials: the handle of each enrolment's passkey, 0 for no such row
  signCount,       \* and its counter
  deviceCounter,   \* how often each device has signed
  guesses,         \* history: comparisons of a code that one of its attempts paid for
  matches,         \* history: how often each code was matched
  passkeyUpsets

passkeyVars == <<enrolmentCode, lastCode, delivered, codeRequest, enrolment, verification, signIn, challenges,
                 userHandle, signCount, deviceCounter, guesses, matches, passkeyUpsets>>

Codes == 1..Cardinality(CodeRequests)
NoCode == [value |-> 0, attempts |-> 0, cooled |-> FALSE]
Registered == {e \in Enrolments : userHandle[e] # 0}
Upset == passkeyUpsets < MaxPasskeyUpsets /\ passkeyUpsets' = passkeyUpsets + 1
NoUpset == UNCHANGED passkeyUpsets
IsNext(requests, r) == requests[r].pc = "idle" /\ \A q \in DOMAIN requests : q < r => requests[q].pc # "idle"
-------------------------------------------------------------------------------
\* POST /register/code: the limit was looked at, expired codes and one older than the cooldown go.
RequestCode(q) ==
  /\ IsNext(codeRequest, q) /\ Cardinality(Registered) < MAX_PASSKEYS_PER_USER
  /\ codeRequest' = [codeRequest EXCEPT ![q].pc = "inserts"]
  /\ enrolmentCode' = IF enrolmentCode.cooled THEN NoCode ELSE enrolmentCode
  /\ NoUpset
  /\ UNCHANGED <<lastCode, delivered, enrolment, verification, signIn, challenges, userHandle, signCount,
                 deviceCounter, guesses, matches>>

\* A duplicate key is a code sent too recently.
savePasskeyEnrollmentCode(q) ==
  /\ codeRequest[q].pc = "inserts"
  /\ IF enrolmentCode.value = 0
     THEN /\ lastCode' = lastCode + 1
          /\ enrolmentCode' = [value |-> lastCode', attempts |-> 0, cooled |-> FALSE]
          /\ codeRequest' = [codeRequest EXCEPT ![q] = [pc |-> "sends", code |-> lastCode']]
     ELSE /\ codeRequest' = [codeRequest EXCEPT ![q].pc = "done"]
          /\ UNCHANGED <<lastCode, enrolmentCode>>
  /\ NoUpset
  /\ UNCHANGED <<delivered, enrolment, verification, signIn, challenges, userHandle, signCount, deviceCounter,
                 guesses, matches>>

SendCode(q, sent) ==
  /\ codeRequest[q].pc = "sends"
  /\ IF sent THEN NoUpset ELSE Upset
  /\ delivered' = IF sent THEN delivered \cup {codeRequest[q].code} ELSE delivered
  /\ codeRequest' = [codeRequest EXCEPT ![q].pc = IF sent THEN "done" ELSE "drops"]
  /\ UNCHANGED <<enrolmentCode, lastCode, enrolment, verification, signIn, challenges, userHandle, signCount,
                 deviceCounter, guesses, matches>>

\* Mistake: whatever code the user has is dropped.
DropsAny(c) == TRUE

\* The clean-up matches on the code as well as the user.
DropsOwn(c) == enrolmentCode.value = c

deletePasskeyEnrollmentCode(q) ==
  /\ codeRequest[q].pc = "drops"
  /\ enrolmentCode' = IF DropsOwn(codeRequest[q].code) THEN NoCode ELSE enrolmentCode
  /\ codeRequest' = [codeRequest EXCEPT ![q].pc = "done"]
  /\ NoUpset
  /\ UNCHANGED <<lastCode, delivered, enrolment, verification, signIn, challenges, userHandle, signCount,
                 deviceCounter, guesses, matches>>

\* sent_at and, later, expires_at pass; an expired code is pruned at the latest when it is in the way.
CodeAges ==
  /\ enrolmentCode.value # 0
  /\ enrolmentCode' = IF enrolmentCode.cooled THEN NoCode ELSE [enrolmentCode EXCEPT !.cooled = TRUE]
  /\ NoUpset
  /\ UNCHANGED <<lastCode, delivered, codeRequest, enrolment, verification, signIn, challenges, userHandle,
                 signCount, deviceCounter, guesses, matches>>
-------------------------------------------------------------------------------
\* Mistake: the attempt is not counted.
NotCounted == enrolmentCode

\* The conditional UPDATE that pays for a comparison
OneAttemptSpent == [enrolmentCode EXCEPT !.attempts = @ + 1]

\* POST /register/options, with a code the user was sent or a wrong one (0)
EnterCode(e, c) ==
  /\ IsNext(enrolment, e) /\ c \in delivered \cup {0}
  /\ IF enrolmentCode.value # 0 /\ enrolmentCode.attempts < CODE_MAX_ATTEMPTS
     THEN /\ enrolmentCode' = OneAttemptSpent
          /\ enrolment' = [enrolment EXCEPT ![e] =
               [@ EXCEPT !.pc = "compares", !.entered = c, !.paid = enrolmentCode.value]]
     ELSE /\ enrolment' = [enrolment EXCEPT ![e].pc = "done"] /\ UNCHANGED enrolmentCode
  /\ NoUpset
  /\ UNCHANGED <<lastCode, delivered, codeRequest, verification, signIn, challenges, userHandle, signCount,
                 deviceCounter, guesses, matches>>

\* The conditional DELETE
consumePasskeyEnrollmentCode(e) ==
  LET r == enrolment[e]
      matched == enrolmentCode.value # 0 /\ r.entered = enrolmentCode.value
  IN
  /\ r.pc = "compares"
  /\ enrolmentCode' = IF matched THEN NoCode ELSE enrolmentCode
  /\ guesses' = IF enrolmentCode.value = r.paid THEN [guesses EXCEPT ![r.paid] = @ + 1] ELSE guesses
  /\ matches' = IF matched THEN [matches EXCEPT ![r.entered] = @ + 1] ELSE matches
  /\ enrolment' = [enrolment EXCEPT ![e].pc = IF matched THEN "lists" ELSE "done"]
  /\ NoUpset
  /\ UNCHANGED <<lastCode, delivered, codeRequest, verification, signIn, challenges, userHandle, signCount,
                 deviceCounter>>

\* The handle of the passkeys there are, else a new one: the enrolment's number stands for it.
chooseUserHandle(e, handle) ==
  IF Registered = {} THEN handle = e ELSE \E other \in Registered : handle = userHandle[other]

ListPasskeys(e, handle) ==
  /\ enrolment[e].pc = "lists"
  /\ chooseUserHandle(e, handle)
  /\ enrolment' = [enrolment EXCEPT ![e] =
       IF Cardinality(Registered) < MAX_PASSKEYS_PER_USER THEN [@ EXCEPT !.pc = "stores", !.handle = handle]
       ELSE [@ EXCEPT !.pc = "done"]]
  /\ NoUpset
  /\ UNCHANGED <<enrolmentCode, lastCode, delivered, codeRequest, verification, signIn, challenges, userHandle,
                 signCount, deviceCounter, guesses, matches>>

storeChallenge(e) ==
  /\ enrolment[e].pc = "stores"
  /\ challenges' = challenges \cup {e}
  /\ enrolment' = [enrolment EXCEPT ![e].pc = "offered"]
  /\ NoUpset
  /\ UNCHANGED <<enrolmentCode, lastCode, delivered, codeRequest, verification, signIn, userHandle, signCount,
                 deviceCounter, guesses, matches>>
-------------------------------------------------------------------------------
\* Mistake: the session's copy of the challenge is enough.
SessionHasIt(e) == TRUE

\* Whether the conditional DELETE finds the challenge
ConsumesChallenge(e) == e \in challenges

\* POST /register/verify: every request that read the session before another saved it has its
\* challenge; only the DELETE in the database tells them apart.  Its reply may be lost.
TakeChallenge(v, e, answered) ==
  /\ IsNext(verification, v) /\ enrolment[e].pc = "offered"
  /\ IF answered THEN NoUpset ELSE Upset
  /\ challenges' = challenges \ {e}
  /\ verification' = [verification EXCEPT ![v] =
       [pc |-> IF answered /\ ConsumesChallenge(e) THEN "inserts" ELSE "done", enrolment |-> e]]
  /\ UNCHANGED <<enrolmentCode, lastCode, delivered, codeRequest, enrolment, signIn, userHandle, signCount,
                 deviceCounter, guesses, matches>>

\* Mistake: the limit looked at with the options is enough.
WasRoom == TRUE

\* The count under the lock on the user's row
HasRoom == Cardinality(Registered) < MAX_PASSKEYS_PER_USER

insertPasskey(v) ==
  LET e == verification[v].enrolment IN
  /\ verification[v].pc = "inserts"
  /\ verification' = [verification EXCEPT ![v].pc = "done"]
  /\ IF HasRoom /\ userHandle[e] = 0
     THEN userHandle' = [userHandle EXCEPT ![e] = enrolment[e].handle] /\ signCount' = [signCount EXCEPT ![e] = 0]
     ELSE UNCHANGED <<userHandle, signCount>>
  /\ NoUpset
  /\ UNCHANGED <<enrolmentCode, lastCode, delivered, codeRequest, enrolment, signIn, challenges, deviceCounter,
                 guesses, matches>>

deletePasskey(e) ==
  /\ userHandle[e] # 0
  /\ userHandle' = [userHandle EXCEPT ![e] = 0] /\ signCount' = [signCount EXCEPT ![e] = 0]
  /\ NoUpset
  /\ UNCHANGED <<enrolmentCode, lastCode, delivered, codeRequest, enrolment, verification, signIn, challenges,
                 deviceCounter, guesses, matches>>
-------------------------------------------------------------------------------
\* POST /login/verify: the device has signed, the sign-in's own challenge was taken, the passkey found.
findPasskey(s, e) ==
  /\ IsNext(signIn, s) /\ userHandle[e] # 0 /\ deviceCounter[e] < MaxDeviceCounter
  /\ deviceCounter' = [deviceCounter EXCEPT ![e] = @ + 1]
  /\ signIn' = [signIn EXCEPT ![s] = [pc |-> "records", passkey |-> e, counter |-> deviceCounter'[e]]]
  /\ NoUpset
  /\ UNCHANGED <<enrolmentCode, lastCode, delivered, codeRequest, enrolment, verification, challenges, userHandle,
                 signCount, guesses, matches>>

\* Mistake: the counter that was read with the passkey decides.
CounterWasNewer(e, n) == TRUE

\* Authenticators that count: those that always report 0 have no counter to compare.
CounterIsNewer(e, n) == userHandle[e] # 0 /\ signCount[e] < n

\* The conditional UPDATE; an answer that is lost is no sign-in.
recordPasskeyUse(s, answered) ==
  LET e == signIn[s].passkey
      accepted == CounterIsNewer(e, signIn[s].counter)
  IN
  /\ signIn[s].pc = "records"
  /\ IF answered THEN NoUpset ELSE Upset
  /\ signCount' = IF accepted THEN [signCount EXCEPT ![e] = signIn[s].counter] ELSE signCount
  /\ signIn' = [signIn EXCEPT ![s].pc = IF accepted /\ answered THEN "in" ELSE "refused"]
  /\ UNCHANGED <<enrolmentCode, lastCode, delivered, codeRequest, enrolment, verification, challenges, userHandle,
                 deviceCounter, guesses, matches>>

\* A statement fails before it does anything.
RequestFails ==
  /\ Upset
  /\ \/ /\ \E q \in CodeRequests : /\ codeRequest[q].pc \in {"inserts", "drops"}
                                   /\ codeRequest' = [codeRequest EXCEPT ![q].pc = "done"]
        /\ UNCHANGED <<enrolment, verification>>
     \/ /\ \E e \in Enrolments : /\ enrolment[e].pc \in {"compares", "lists", "stores"}
                                 /\ enrolment' = [enrolment EXCEPT ![e].pc = "done"]
        /\ UNCHANGED <<codeRequest, verification>>
     \/ /\ \E v \in Verifications : /\ verification[v].pc = "inserts"
                                    /\ verification' = [verification EXCEPT ![v].pc = "done"]
        /\ UNCHANGED <<codeRequest, enrolment>>
  /\ UNCHANGED <<enrolmentCode, lastCode, delivered, signIn, challenges, userHandle, signCount, deviceCounter,
                 guesses, matches>>
-------------------------------------------------------------------------------
PasskeysInit ==
  /\ enrolmentCode = NoCode /\ lastCode = 0 /\ delivered = {}
  /\ codeRequest = [q \in CodeRequests |-> [pc |-> "idle", code |-> 0]]
  /\ enrolment = [e \in Enrolments |-> [pc |-> "idle", entered |-> 0, paid |-> 0, handle |-> 0]]
  /\ verification = [v \in Verifications |-> [pc |-> "idle", enrolment |-> 0]]
  /\ signIn = [s \in SignIns |-> [pc |-> "idle", passkey |-> 0, counter |-> 0]]
  /\ challenges = {}
  /\ userHandle = [e \in Enrolments |-> 0] /\ signCount = [e \in Enrolments |-> 0]
  /\ deviceCounter = [e \in Enrolments |-> 0]
  /\ guesses = [c \in Codes |-> 0] /\ matches = [c \in Codes |-> 0]
  /\ passkeyUpsets = 0

PasskeysNext ==
  \/ \E q \in CodeRequests :
       \/ RequestCode(q) \/ savePasskeyEnrollmentCode(q) \/ deletePasskeyEnrollmentCode(q)
       \/ \E sent \in BOOLEAN : SendCode(q, sent)
  \/ \E e \in Enrolments :
       \/ \E c \in Codes \cup {0} : EnterCode(e, c)
       \/ consumePasskeyEnrollmentCode(e) \/ storeChallenge(e) \/ deletePasskey(e)
       \/ \E handle \in Enrolments : ListPasskeys(e, handle)
       \/ \E v \in Verifications, answered \in BOOLEAN : TakeChallenge(v, e, answered)
       \/ \E s \in SignIns : findPasskey(s, e)
  \/ \E v \in Verifications : insertPasskey(v)
  \/ \E s \in SignIns, answered \in BOOLEAN : recordPasskeyUse(s, answered)
  \/ CodeAges \/ RequestFails

PasskeysSpec == PasskeysInit /\ [][PasskeysNext]_passkeyVars
-------------------------------------------------------------------------------
\* The state keeps to its types.
PasskeysTypeOK ==
  /\ enrolmentCode \in [value : Codes \cup {0}, attempts : 0..CODE_MAX_ATTEMPTS, cooled : BOOLEAN]
  /\ lastCode \in 0..Cardinality(CodeRequests) /\ delivered \subseteq Codes
  /\ codeRequest \in [CodeRequests -> [pc : {"idle", "inserts", "sends", "drops", "done"}, code : Codes \cup {0}]]
  /\ enrolment \in [Enrolments -> [pc : {"idle", "compares", "lists", "stores", "offered", "done"},
                                   entered : Codes \cup {0}, paid : Codes \cup {0}, handle : Enrolments \cup {0}]]
  /\ verification \in [Verifications -> [pc : {"idle", "inserts", "done"}, enrolment : Enrolments \cup {0}]]
  /\ signIn \in [SignIns -> [pc : {"idle", "records", "in", "refused"}, passkey : Enrolments \cup {0},
                             counter : 0..MaxDeviceCounter]]
  /\ challenges \subseteq Enrolments
  /\ userHandle \in [Enrolments -> Enrolments \cup {0}] /\ signCount \in [Enrolments -> 0..MaxDeviceCounter]
  /\ deviceCounter \in [Enrolments -> 0..MaxDeviceCounter]
  /\ guesses \in [Codes -> Nat] /\ matches \in [Codes -> Nat] /\ passkeyUpsets \in 0..MaxPasskeyUpsets

\* However many requests run side by side, a code is compared no more often than it has attempts
\* and opens one registration, a challenge is used by one request, and the user has no more
\* passkeys than the limit (passkeyEnrollmentCodes.ts, webauthnChallenges.ts, insertPasskey).
EachIsUsedOnce ==
  /\ \A c \in Codes : guesses[c] <= CODE_MAX_ATTEMPTS /\ matches[c] <= 1
  /\ \A v, w \in Verifications :
       verification[v].pc = "inserts" /\ verification[w].pc = "inserts"
         /\ verification[v].enrolment = verification[w].enrolment => v = w
  /\ Cardinality(Registered) <= MAX_PASSKEYS_PER_USER

\* A code that has reached the user stays until it is matched or old enough to be replaced,
\* whatever becomes of other messages (deletePasskeyEnrollmentCode).
DeliveredCodesStay ==
  [][enrolmentCode.value \in delivered /\ enrolmentCode'.value # enrolmentCode.value
       => enrolmentCode.cooled \/ matches' # matches]_passkeyVars

\* Of the sign-ins of one passkey each that is let in brings a higher counter than the one before,
\* and none is let in once the passkey is deleted (recordPasskeyUse).
CountersOnlyRise ==
  [][\A s \in SignIns :
       signIn[s].pc = "records" /\ signIn'[s].pc = "in"
         => LET e == signIn[s].passkey IN userHandle[e] # 0 /\ signCount'[e] > signCount[e]]_passkeyVars
===============================================================================
