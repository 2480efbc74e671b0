------------------------------ MODULE Webhook ------------------------------
(***************************************************************************)
(* The enrollment webhook at work: request handlers of                     *)
(* webhook/internal/server/server.go running concurrently over the Store,  *)
(* step-ca delivering, retrying and giving up on requests, an              *)
(* administrator at the command line (webhook/admin.go) writing the same   *)
(* database, the allowlist file changing underneath, the clock, and the    *)
(* server process dying and coming back.                                   *)
(*                                                                         *)
(* A handler is not one step: it reads the allowlist, then the active      *)
(* phrases, then writes; everybody else may act in between.                *)
(***************************************************************************)
EXTENDS Store, FiniteSets

CONSTANTS
    Serials,    \* normalised serial numbers
    Lists,      \* contents the allowlist file may be given; Null: it does not load
    Lifetimes,  \* lifetimes an administrator gives a phrase, in seconds of the store's clock
    Requests,   \* SCEP requests the webhook may be asked about
    Slots,      \* requests step-ca may have under way at once
    MaxClock,   \* bound: the clock stops here
    MaxTries    \* times step-ca asks about one request (2: it retries once)

(* What a request says.  host is Null when identify() refuses the names in *)
(* the CSR, key is Null when it carries none; genuine tells that the body  *)
(* could be read, its signature is good and it is JSON.  chal is Null for  *)
(* no challenge, else the phrase and serial it was computed from: HMAC is  *)
(* taken to be collision free.                                             *)
Request == [genuine : BOOLEAN,
            prov    : {"enroll", "renew", "other"},
            host    : Hosts \cup {Null},
            key     : Keys \cup {Null},
            txn     : Txns,
            chal    : (Phrases \X Serials) \cup {Null}]

(* load() refuses a file that gives two hosts one serial.                  *)
ValidList(d) ==
    \A g, h \in Hosts : d[g] # Null /\ d[g] = d[h] => g = h

(* What scepclient does, and the webhook does not check: the transaction   *)
(* ID is derived from the key.  Nothing here assumes it.                   *)
TxnDerivesFromKey ==
    \A q, r \in Requests : q.txn = r.txn /\ q.txn # NoTxn => q.key = r.key

ASSUME WebhookAssumption ==
    /\ Requests \subseteq Request
    /\ Null \notin Requests
    /\ Null \notin Serials
    /\ Lists \ {Null} \subseteq {d \in [Hosts -> Serials \cup {Null}] : ValidList(d)}
    /\ Lifetimes \subseteq Nat
    /\ MaxClock \in Nat
    /\ MaxTries \in Nat \ {0}

VARIABLES
    clock,      \* the time, in the seconds the store keeps
    server,     \* the server process: "up", "draining" (it stops, takes no new request), "down"
    devices,    \* contents of the allowlist file, Null when it does not load
    pc,         \* where each request is
    req,        \* the request in a slot, Null in an idle one
    tries,      \* how often step-ca has sent it
    serial,     \* serial Lookup returned
    now,        \* time read before the phrases were fetched
    matched,    \* active phrases the challenge matched and Enroll has not refused
    answer,     \* the webhook's answer as step-ca sees it
    arrived,    \* history: when the request the webhook is at work on came
    window,     \* history: what was true at some time while the webhook had the request
    grants,     \* history: enrollments allowed since the host's uses were reset
    enrolled,   \* history: <<host, key>> of every enrollment ever allowed
    certs       \* <<host, key>> step-ca has issued a certificate for

reqVars == <<pc, req, tries, serial, now, matched, answer>>
history == <<grants, enrolled, certs>>
vars == <<storeVars, clock, server, devices, reqVars, history, arrived, window>>

-----------------------------------------------------------------------------
(* History.  A request's window marks what was seen at some time while the *)
(* webhook had it: the host listed with the serial it answers for, its     *)
(* phrase good for it or its key pinned, and anything that stood in its    *)
(* way.  A phrase is good for a request when it is on record, not revoked, *)
(* and expires after the second the request came in: a handler goes by the *)
(* time it read, and the row may come late.                                *)

AtWork(s) == pc[s] \in {"lookup", "clock", "match", "enroll", "pin"}

SerialOf(h) == IF devices = Null \/ h = Null THEN Null ELSE devices[h]

Listed(q) ==
    /\ SerialOf(q.host) # Null
    /\ q.prov = "enroll" => q.chal # Null /\ q.chal[2] = SerialOf(q.host)

Entitled(q, t) ==
    \/ q.prov = "enroll" /\ q.chal # Null /\ q.chal[1] \in ActivePhrases(t)
    \/ q.prov = "renew" /\ q.host # Null /\ IsPinned(q.host, q.key)

(* Enrollments already allowed leave this one room: none with its phrase   *)
(* by its host, or the very same transaction.                              *)
Unspent(q) ==
    \A g \in grants : q.prov = "enroll" /\ q.chal # Null /\ g.phrase = q.chal[1] /\ g.host = q.host
                        => g.txn = q.txn /\ q.txn # NoTxn

Marks == {"listed", "entitled", "blocked"}

Clear(q) == Listed(q) /\ Entitled(q, clock) /\ Unspent(q)

Seen(q, t) ==
    {m \in Marks : \/ m = "listed" /\ Listed(q)
                   \/ m = "entitled" /\ Entitled(q, t)
                   \/ m = "blocked" /\ ~Clear(q)}

Observe ==
    /\ arrived' = [s \in Slots |->
        IF ~AtWork(s)' THEN 0 ELSE IF AtWork(s) THEN arrived[s] ELSE clock']
    /\ window' = [s \in Slots |->
        IF AtWork(s)'
        THEN (IF AtWork(s) THEN window[s] ELSE {}) \cup Seen(req[s], arrived[s])'
        ELSE IF pc'[s] = "idle" THEN {} ELSE window[s]]

Init ==
    /\ StoreInit
    /\ clock = 0
    /\ server = "up"
    /\ devices \in Lists \ {Null}
    /\ pc = [s \in Slots |-> "idle"]
    /\ req = [s \in Slots |-> Null]
    /\ tries = [s \in Slots |-> 0]
    /\ serial = [s \in Slots |-> Null]
    /\ now = [s \in Slots |-> 0]
    /\ matched = [s \in Slots |-> {}]
    /\ answer = [s \in Slots |-> "none"]
    /\ arrived = [s \in Slots |-> 0]
    /\ window = [s \in Slots |-> {}]
    /\ grants = {}
    /\ enrolled = {}
    /\ certs = {}

-----------------------------------------------------------------------------
(* The handler.                                                            *)

Goto(s, l) == pc' = [pc EXCEPT ![s] = l]

Reply(s, a) ==
    /\ Goto(s, "answered")
    /\ answer' = [answer EXCEPT ![s] = a]
    /\ serial' = [serial EXCEPT ![s] = Null]
    /\ now' = [now EXCEPT ![s] = 0]
    /\ matched' = [matched EXCEPT ![s] = {}]
    /\ UNCHANGED <<req, tries>>

(* Slip: a request without a public key goes through. *)
PresentableKeyless(q) ==
    /\ q.genuine
    /\ q.prov \in {"enroll", "renew"}
    /\ q.host # Null

(* What is checked before the allowlist is consulted.                      *)
Presentable(q) ==
    /\ q.genuine
    /\ q.prov \in {"enroll", "renew"}
    /\ q.host # Null
    /\ q.key # Null

RejectRequest(s) ==
    /\ pc[s] = "lookup"
    /\ ~Presentable(req[s])
    /\ Reply(s, "deny")
    /\ UNCHANGED <<storeVars, clock, server, devices, history>>
    /\ Observe

(* An allowlist that does not load, or cannot be read just now, is an      *)
(* internal error.                                                         *)
LookupFails(s) ==
    /\ pc[s] = "lookup"
    /\ Presentable(req[s])
    /\ Reply(s, "error")
    /\ UNCHANGED <<storeVars, clock, server, devices, history>>
    /\ Observe

LookupRefuses(s) ==
    /\ pc[s] = "lookup"
    /\ Presentable(req[s])
    /\ devices # Null
    /\ \/ devices[req[s].host] = Null
       \/ req[s].prov = "enroll" /\ req[s].chal = Null
    /\ Reply(s, "deny")
    /\ UNCHANGED <<storeVars, clock, server, devices, history>>
    /\ Observe

LookupFinds(s) ==
    /\ pc[s] = "lookup"
    /\ Presentable(req[s])
    /\ devices # Null
    /\ devices[req[s].host] # Null
    /\ \/ req[s].prov = "renew" /\ Goto(s, "pin")
       \/ req[s].prov = "enroll" /\ req[s].chal # Null /\ Goto(s, "clock")
    /\ serial' = [serial EXCEPT ![s] = devices[req[s].host]]
    /\ UNCHANGED <<req, tries, now, matched, answer>>
    /\ UNCHANGED <<storeVars, clock, server, devices, history>>
    /\ Observe

(* The time is read first and the phrases that are active at it fetched    *)
(* after.                                                                  *)
ReadClock(s) ==
    /\ pc[s] = "clock"
    /\ Goto(s, "match")
    /\ now' = [now EXCEPT ![s] = clock]
    /\ UNCHANGED <<req, tries, serial, matched, answer>>
    /\ UNCHANGED <<storeVars, clock, server, devices, history>>
    /\ Observe

MatchAmong(s, hits) ==
    /\ pc[s] = "match"
    /\ \/ /\ hits # {}
          /\ Goto(s, "enroll")
          /\ matched' = [matched EXCEPT ![s] = hits]
          /\ now' = [now EXCEPT ![s] = 0]
          /\ UNCHANGED <<req, tries, serial, answer>>
       \/ /\ hits = {}
          /\ Reply(s, "deny")
    /\ UNCHANGED <<storeVars, clock, server, devices, history>>
    /\ Observe

(* A slip: every phrase on record counts as active.                        *)
MatchDeadPhrases(s) ==
    MatchAmong(s, {p \in Phrases : phrases[p] # Null /\ req[s].chal = <<p, serial[s]>>})

(* The challenge is compared with every phrase that is active.             *)
MatchPhrases(s) ==
    MatchAmong(s, {p \in ActivePhrases(now[s]) : req[s].chal = <<p, serial[s]>>})

(* Enroll() allows: the use and the pin are committed before the handler   *)
(* answers.  Nothing is read again: not the phrase, not the allowlist.     *)
EnrollAllows(s) ==
    /\ pc[s] = "enroll"
    /\ \E p \in matched[s] :
         /\ Enroll(p, req[s].host, req[s].txn, req[s].key)
         /\ grants' = grants \cup {[phrase |-> p, host |-> req[s].host,
                                    txn |-> req[s].txn, key |-> req[s].key]}
    /\ enrolled' = enrolled \cup {<<req[s].host, req[s].key>>}
    /\ Reply(s, "allow")
    /\ UNCHANGED <<clock, server, devices, certs>>
    /\ Observe

(* Slips: the use is overwritten before the refusal; the refused phrase is *)
(* tried again for ever.                                                   *)
EnrollRefusesReplacing(s) ==
    /\ pc[s] = "enroll"
    /\ \E p \in matched[s] :
         /\ ~MayEnroll(p, req[s].host, req[s].txn)
         /\ matched' = [matched EXCEPT ![s] = @ \ {p}]
         /\ uses' = [uses EXCEPT ![<<p, req[s].host>>] = req[s].txn]
    /\ UNCHANGED <<pc, req, tries, serial, now, answer>>
    /\ UNCHANGED <<phrases, pins, clock, server, devices, history>>
    /\ Observe
EnrollRefusesForEver(s) ==
    /\ pc[s] = "enroll"
    /\ \E p \in matched[s] : ~MayEnroll(p, req[s].host, req[s].txn)
    /\ UNCHANGED <<storeVars, clock, server, devices, reqVars, history>>
    /\ Observe

(* Enroll() refuses and changes nothing; the next matched phrase is tried. *)
EnrollRefuses(s) ==
    /\ pc[s] = "enroll"
    /\ \E p \in matched[s] :
         /\ ~MayEnroll(p, req[s].host, req[s].txn)
         /\ matched' = [matched EXCEPT ![s] = @ \ {p}]
    /\ UNCHANGED <<pc, req, tries, serial, now, answer>>
    /\ UNCHANGED <<storeVars, clock, server, devices, history>>
    /\ Observe

EnrollExhausted(s) ==
    /\ pc[s] = "enroll"
    /\ matched[s] = {}
    /\ Reply(s, "deny")
    /\ UNCHANGED <<storeVars, clock, server, devices, history>>
    /\ Observe

(* Slip: any pin of the host will do. *)
CheckPinAnyKey(s) ==
    /\ pc[s] = "pin"
    /\ Reply(s, IF pins[req[s].host] # Null THEN "allow" ELSE "deny")
    /\ UNCHANGED <<storeVars, clock, server, devices, history>>
    /\ Observe

CheckPin(s) ==
    /\ pc[s] = "pin"
    /\ Reply(s, IF IsPinned(req[s].host, req[s].key) THEN "allow" ELSE "deny")
    /\ UNCHANGED <<storeVars, clock, server, devices, history>>
    /\ Observe

(* A statement fails (the database is locked for longer than the busy      *)
(* timeout, the disk is full) and its transaction is rolled back.          *)
DatabaseFails(s) ==
    /\ pc[s] \in {"match", "enroll", "pin"}
    /\ pc[s] = "enroll" => matched[s] # {}
    /\ Reply(s, "error")
    /\ UNCHANGED <<storeVars, clock, server, devices, history>>
    /\ Observe

Work(s) ==
    \/ RejectRequest(s) \/ LookupFails(s) \/ LookupRefuses(s) \/ LookupFinds(s)
    \/ ReadClock(s) \/ MatchPhrases(s)
    \/ EnrollAllows(s) \/ EnrollRefuses(s) \/ EnrollExhausted(s)
    \/ CheckPin(s)

Serve(s) == Work(s) \/ DatabaseFails(s)

-----------------------------------------------------------------------------
(* step-ca, and the clients behind it.  A client may send the same request *)
(* again at any time, also long after it was answered.                     *)

Arrive(s) ==
    /\ pc[s] = "idle"
    /\ server = "up"
    /\ \E q \in Requests : req' = [req EXCEPT ![s] = q]
    /\ Goto(s, "lookup")
    /\ tries' = [tries EXCEPT ![s] = 1]
    /\ UNCHANGED <<serial, now, matched, answer>>
    /\ UNCHANGED <<storeVars, clock, server, devices, history>>
    /\ Observe

(* After a 5xx, or no answer at all, step-ca asks once more.               *)
AskAgain(s) ==
    /\ pc[s] = "answered"
    /\ answer[s] = "error"
    /\ server = "up"
    /\ tries[s] < MaxTries
    /\ Goto(s, "lookup")
    /\ tries' = [tries EXCEPT ![s] = @ + 1]
    /\ answer' = [answer EXCEPT ![s] = "none"]
    /\ UNCHANGED <<req, serial, now, matched>>
    /\ UNCHANGED <<storeVars, clock, server, devices, history>>
    /\ Observe

LoseReply(s) ==
    /\ pc[s] = "answered"
    /\ answer[s] # "error"
    /\ answer' = [answer EXCEPT ![s] = "error"]
    /\ UNCHANGED <<pc, req, tries, serial, now, matched>>
    /\ UNCHANGED <<storeVars, clock, server, devices, history>>
    /\ Observe

Release(s) ==
    /\ Goto(s, "idle")
    /\ req' = [req EXCEPT ![s] = Null]
    /\ tries' = [tries EXCEPT ![s] = 0]
    /\ answer' = [answer EXCEPT ![s] = "none"]
    /\ UNCHANGED <<serial, now, matched>>

Issue(s) ==
    /\ pc[s] = "answered"
    /\ answer[s] = "allow"
    /\ certs' = certs \cup {<<req[s].host, req[s].key>>}
    /\ Release(s)
    /\ UNCHANGED <<grants, enrolled>>
    /\ UNCHANGED <<storeVars, clock, server, devices>>
    /\ Observe

(* Refused, out of retries, or issuance failed after the webhook said yes. *)
GiveUp(s) ==
    /\ pc[s] = "answered"
    /\ Release(s)
    /\ UNCHANGED <<storeVars, clock, server, devices, history>>
    /\ Observe

StepCA(s) == Arrive(s) \/ AskAgain(s) \/ LoseReply(s) \/ Issue(s) \/ GiveUp(s)

-----------------------------------------------------------------------------
(* The administrator, the allowlist file, the clock and the process.       *)

(* The expiry is reckoned from the time the command read, which may be     *)
(* some seconds ago when the row is inserted; a lifetime of less than a    *)
(* second may end in the second it began.                                  *)
PhraseAdd(p, read, life) ==
    /\ AddPhrase(p, read + life)
    /\ UNCHANGED <<clock, server, devices, reqVars, history>>
    /\ Observe

PhraseRevoke(p) ==
    /\ RevokePhrase(p, clock)
    /\ UNCHANGED <<clock, server, devices, reqVars, history>>
    /\ Observe

PinsClear(h) ==
    /\ ClearPin(h)
    /\ UNCHANGED <<clock, server, devices, reqVars, history>>
    /\ Observe

UsesReset(h) ==
    /\ ResetUses(h)
    /\ grants' = {g \in grants : g.host # h}
    /\ UNCHANGED <<clock, server, devices, reqVars, enrolled, certs>>
    /\ Observe

PublishList(d) ==
    /\ devices' = d
    /\ UNCHANGED <<storeVars, clock, server, reqVars, history>>
    /\ Observe

Tick ==
    /\ clock < MaxClock
    /\ clock' = clock + 1
    /\ UNCHANGED <<storeVars, server, devices, reqVars, history>>
    /\ Observe

(* Told to stop, the server closes its listener and lets the handlers      *)
(* finish, for some seconds at most.                                       *)
Shutdown ==
    /\ server = "up"
    /\ server' = "draining"
    /\ UNCHANGED <<storeVars, clock, devices, reqVars, history>>
    /\ Observe

(* The process ends, killed or after draining, and what handlers are left  *)
(* die with it: step-ca gets no answer from them.                          *)
Exit ==
    /\ server # "down"
    /\ server' = "down"
    /\ pc' = [s \in Slots |-> IF AtWork(s) THEN "answered" ELSE pc[s]]
    /\ answer' = [s \in Slots |-> IF AtWork(s) THEN "error" ELSE answer[s]]
    /\ serial' = [s \in Slots |-> Null]
    /\ now' = [s \in Slots |-> 0]
    /\ matched' = [s \in Slots |-> {}]
    /\ UNCHANGED <<req, tries, storeVars, clock, devices, history>>
    /\ Observe

(* serve loads the allowlist before it listens.                            *)
Restart ==
    /\ server = "down"
    /\ devices # Null
    /\ server' = "up"
    /\ UNCHANGED <<storeVars, clock, devices, reqVars, history>>
    /\ Observe

Admin ==
    \/ \E p \in Phrases, read \in 0..clock, life \in Lifetimes : PhraseAdd(p, read, life)
    \/ \E p \in Phrases : PhraseRevoke(p)
    \/ \E h \in Hosts : PinsClear(h) \/ UsesReset(h)
    \/ \E d \in Lists : PublishList(d)

Next ==
    \/ \E s \in Slots : Serve(s) \/ StepCA(s)
    \/ Admin
    \/ Tick
    \/ Shutdown
    \/ Exit
    \/ Restart

Spec == Init /\ [][Next]_vars

(* Every handler runs in a goroutine of its own and every statement in it  *)
(* ends, at the latest when the busy timeout does.  Nobody else is bound   *)
(* to act.                                                                 *)
FairSpec == Spec /\ \A s \in Slots : WF_vars(Work(s))

-----------------------------------------------------------------------------
(* Properties.                                                             *)

(* Every variable holds what the code's types and tables let it hold; in   *)
(* particular no pin without a key and no use without a transaction.       *)
TypeOK ==
    /\ StoreTypeOK
    /\ clock \in 0..MaxClock
    /\ server \in {"up", "draining", "down"}
    /\ devices \in Lists \cup {Null}
    /\ pc \in [Slots -> {"idle", "lookup", "clock", "match", "enroll", "pin", "answered"}]
    /\ req \in [Slots -> Requests \cup {Null}]
    /\ \A s \in Slots :
         /\ pc[s] # "idle" => req[s] # Null
         /\ pc[s] = "answered" <=> answer[s] # "none"
         /\ pc[s] \in {"clock", "match", "enroll", "pin"} \/ answer[s] = "allow" => Presentable(req[s])
    /\ tries \in [Slots -> 0..MaxTries]
    /\ serial \in [Slots -> Serials \cup {Null}]
    /\ now \in [Slots -> 0..MaxClock]
    /\ arrived \in [Slots -> 0..MaxClock]
    /\ matched \in [Slots -> SUBSET Phrases]
    /\ answer \in [Slots -> {"none", "allow", "deny", "error"}]
    /\ window \in [Slots -> SUBSET Marks]
    /\ grants \subseteq [phrase : Phrases, host : Hosts, txn : Txns, key : Keys]
    /\ enrolled \subseteq Hosts \X Keys
    /\ certs \subseteq Hosts \X Keys

(* The table of uses and the enrollments the webhook allowed since the     *)
(* host's last reset are the same thing: a refused, failed or interrupted  *)
(* request never uses a phrase up, and an allowed one always does.         *)
UsesAreGrants ==
    \A p \in Phrases, h \in Hosts :
        /\ \A g \in grants : g.phrase = p /\ g.host = h => uses[<<p, h>>] = g.txn
        /\ uses[<<p, h>>] # Null => \E g \in grants : g.phrase = p /\ g.host = h

(* Single use: between two resets a phrase lets one host through for one   *)
(* transaction, retries of it included, however requests are repeated,     *)
(* raced or delayed: two enrollments at most under one transaction ID, and *)
(* not under the empty one.                                                *)
OneTransactionPerUse ==
    \A g1, g2 \in grants :
        g1.phrase = g2.phrase /\ g1.host = g2.host /\ g1 # g2
            => g1.txn = g2.txn /\ g1.txn # NoTxn

(* What that comes to for clients that keep to TxnDerivesFromKey.          *)
OneKeyPerUse ==
    \A g1, g2 \in grants :
        g1.phrase = g2.phrase /\ g1.host = g2.host => g1.key = g2.key

(* A pin is the work of an allowed enrollment of that very host, and as    *)
(* long as the use it came from is on record it is that use's key.         *)
PinIsEnrolled ==
    \A h \in Hosts : pins[h] # Null =>
        /\ <<h, pins[h].key>> \in enrolled
        /\ uses[<<pins[h].phrase, h>>] # Null =>
             \E g \in grants : /\ g.phrase = pins[h].phrase
                               /\ g.host = h
                               /\ g.key = pins[h].key

(* step-ca never issues a host a certificate for a key the host did not    *)
(* enroll with a phrase, by renewal or otherwise.                          *)
CertsAreEnrolled == certs \subseteq enrolled

(* What a request is allowed on was true at some time while the webhook    *)
(* had it: the host was listed with that serial; the key was the host's    *)
(* pin, or the phrase was on record, not revoked, and to expire only after *)
(* the second in which the request came.  A phrase revoked or expired, or  *)
(* a host taken off the list, before the request came never lets it        *)
(* through, though its row be inserted late and its handler stall.         *)
AllowedWithinWindow ==
    \A s \in Slots : answer[s] = "allow" => {"listed", "entitled"} \subseteq window[s]

(* No well-formed request that could have been allowed at every moment the *)
(* webhook had it is refused: a client repeating an enrollment is never    *)
(* locked out by its own first attempt, whatever runs beside it.           *)
DenyHasCause ==
    \A s \in Slots : answer[s] = "deny" /\ Presentable(req[s]) => "blocked" \in window[s]

(* For all its handlers, retries and crashes the webhook does what         *)
(* Enrollment says: single use, pins and certificates, step by step.  A    *)
(* late repeat brings an old pin back only under the transaction of the    *)
(* use on record, and nothing else moves a pin.                            *)
Abstract == INSTANCE Enrollment WITH
    bought <- grants,
    pinned <- [h \in Hosts |-> IF pins[h] = Null THEN Null ELSE pins[h].key]

ImplementsEnrollment == Abstract!Spec

(* The inductive invariant behind them.  The database and the certificates *)
(* first: what a grant may carry, and what has become of it.               *)

GrantsAreRequested ==
    \A g \in grants : \E q \in Requests : g.txn = q.txn /\ g.key = q.key

AllowedAreEnrolled ==
    \A s \in Slots : answer[s] = "allow" => <<req[s].host, req[s].key>> \in enrolled

RecordInv ==
    /\ UsesAreGrants
    /\ GrantsAreRequested
    /\ OneTransactionPerUse
    /\ PinIsEnrolled
    /\ CertsAreEnrolled

(* The window counts the present.                                          *)
WindowCoversNow(s) ==
    AtWork(s) =>
        /\ Listed(req[s]) => "listed" \in window[s]
        /\ Entitled(req[s], arrived[s]) => "entitled" \in window[s]
        /\ "blocked" \notin window[s] => Clear(req[s])

(* What a handler holds on to after a step is still worth something later. *)
HandlerInv(s) ==
    /\ pc[s] \in {"clock", "match"} =>
         /\ req[s].prov = "enroll" /\ req[s].chal # Null
         /\ req[s].chal[2] = serial[s] => "listed" \in window[s]
         /\ "blocked" \notin window[s] => req[s].chal[2] = serial[s]
    /\ AtWork(s) => arrived[s] <= clock
    /\ pc[s] = "match" => arrived[s] <= now[s] /\ now[s] <= clock
    /\ pc[s] = "enroll" =>
         /\ req[s].prov = "enroll" /\ req[s].chal # Null
         /\ "listed" \in window[s]
         /\ "entitled" \in window[s]
         /\ matched[s] \subseteq {req[s].chal[1]}
         /\ matched[s] = {} => "blocked" \in window[s]
    /\ pc[s] = "pin" =>
         /\ req[s].prov = "renew"
         /\ "listed" \in window[s]
    /\ answer[s] = "allow" => {"listed", "entitled"} \subseteq window[s]
    /\ answer[s] = "deny" /\ Presentable(req[s]) => "blocked" \in window[s]

IInv ==
    /\ TypeOK
    /\ RecordInv
    /\ AllowedAreEnrolled
    /\ \A s \in Slots : WindowCoversNow(s) /\ HandlerInv(s)

(* Every request the webhook takes is answered or lost with the process.   *)
EveryRequestAnswered ==
    \A s \in Slots : AtWork(s) ~> pc[s] = "answered"

(* "RevokePhrase invalidates a phrase immediately" (store.go): no phrase   *)
(* that is revoked is used up from then on.                                *)
RevokedPhraseIsNotUsed ==
    [][\A p \in Phrases, h \in Hosts :
         uses[<<p, h>>] = Null /\ uses'[<<p, h>>] # Null => phrases[p].revoked = Null]_vars
=============================================================================
