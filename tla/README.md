# Verification of the device enrollment webhook

TLA+ models, TLC runs and machine-checked proofs for Device-Trust-Cloud. The
repository sets up a private CA (Google CA Service), a step-ca container that
speaks SCEP in front of it, a webhook that decides which devices step-ca may
issue certificates to, and scripts that enroll a device. The logic that can go
wrong in ways a test hardly reaches is in the webhook (`webhook/`, Go) and in
what the scripts leave on a device, and the models are about these.

## 1. Inventory

| Part | State | Operations | Hard part |
|---|---|---|---|
| Store (`webhook/internal/store`) | SQLite tables `phrases`, `uses`, `pins` | AddPhrase, ActivePhrases, RevokePhrase, Enroll, PinFor, ClearPin, ResetUses | single use under concurrent enrollments of one host, retries, rollback |
| Handler (`webhook/internal/server`) | none between requests; per request: what it has read so far | handleChallenge, identify, decide, decideEnroll, decideRenew | reads the allowlist, then the clock, then the phrases, then writes; everybody else acts in between |
| Allowlist (`webhook/internal/allowlist`) | cached devices with the mtime and size they were read at | Load, Lookup, Len | the file is replaced or rewritten under a reader |
| Serve (`webhook/serve.go`) | the process, its listener, the TLS key pair with two mtimes | start, serve, drain, exit; GetCertificate | handlers die half way; the key pair changes file by file |
| Admin CLI (`webhook/admin.go`) | none: another process on the same database | phrase new/add/revoke/list, uses list/reset, pins list/clear | runs at any moment beside the server |
| Challenge (`webhook/internal/challenge`) | none | NormalizeSerial, ValidatePhrase, Compute, ParseWordlist, Generate | pure, but four programs in three languages must agree on it |
| step-ca (external) | SCEP requests under way, certificates | asks the webhook, retries once after a 5xx or no answer, issues | repeats, lost replies |
| dtw-refresh (`modules/stepca_container/templates/webhook-setup.sh.tftpl`) | the three files on disk | fetches list, certificate and key one after another | a failed download, a stop between two files |
| Client scripts (`install-macos.sh`, `install-windows.ps1`, `.bat`) | key, certificate, backup on the device | enroll, renew, fall back | a run that stops half way |
| Terraform, deploy scripts | declarative | | not modelled |

Interactions. A device's SCEP client sends a PKCSReq to step-ca, which POSTs a
signed JSON body to the webhook. The handler normalises the host name in the
CSR, looks the host up in the allowlist, and then either compares the challenge
with `HMAC(phrase, serial)` for every active phrase and enrolls (uses the phrase
up for the host, and pins the host's key), or, on the renewal provisioner,
compares the key with the host's pin. It answers allow, deny, or a 5xx. The
administrator's commands write the same database from another process. The
timer on the VM replaces the allowlist and the key pair under the server.

What makes the system correct:

* a phrase lets a host enroll under one SCEP transaction, which for scepclient
  is one key, however requests are repeated, raced, delayed or lost (single use);
* a refused or failed request leaves no trace, an allowed one always does;
* pins and certificates only ever come from an allowed enrollment;
* what a request is allowed on was true while the webhook had the request, at a
  time that was not over when it came, and nobody is refused without a cause, in particular no client is locked out by
  its own first attempt;
* every request gets an answer, and nobody who fails keeps the database locked;
* a device, the allowlist and the server read one serial number, one hostname
  and one phrase alike, however they are written.

## 2. Modules

| Module | Models | Uses |
|---|---|---|
| `Store` | the three tables and every operation on them | |
| `StoreCalls` | what the callers of the store may rely on: each call in one step or not at all | EXTENDS `Store` |
| `StoreTx` | the same calls statement by statement, over connections and SQLite's write lock | EXTENDS `StoreCalls` |
| `Enrollment` | what the webhook promises: a phrase buys a host the keys of one transaction | |
| `Webhook` | handlers, step-ca, admin, allowlist file, clock and process over the Store | EXTENDS `Store`, INSTANCE `Enrollment` |
| `DeviceList` | what the handler takes `allowlist.Lookup` for | |
| `Allowlist` | the allowlist cache, its readers and the file's writers, step by step | INSTANCE `DeviceList` |
| `KeyPair` | the TLS key pair reloader, handshakes and renewals, step by step | |
| `Install` | one Mac running the install script again and again against the Store | EXTENDS `Store` |
| `Names` | serial numbers, hostnames, phrases, word lists, allowlist lines and the names in a request, as operators on texts | |
| `MCWebhook`, `MCStoreTx`, `MCAllowlist`, `MCKeyPair`, `MCInstall`, `MCNames` | small instances for TLC | EXTENDS the module |
| `WebhookProofs`, `StoreTxProofs`, `AllowlistProofs`, `KeyPairProofs`, `InstallProofs` | theorems | EXTENDS the module, `TLAPS` |
| `EnrollmentProofs` | the refinement of `Enrollment` | EXTENDS `WebhookProofs` |
| `NamesLaws` | laws of the operators on texts | EXTENDS `Names`, `TLAPS` |
| `NamesProofs` | theorems about `Names` | EXTENDS `NamesLaws` |

### Store

A phrase of the model stands for both the text and the row id (the text is
UNIQUE and rows are never deleted). `phrases[p]`, `uses[<<p, h>>]` and
`pins[h]` are the rows, or `Null` where there is none. Each operation of
`store.go` is one action here, which `StoreTx` justifies. `Enroll` is enabled
exactly when the Go function returns true; `~MayEnroll` is the case in which it
returns false and changes nothing. Columns nobody reads back (`created_at`,
`used_at`, `set_at`) are left out. `AddPhrase` inserts a row with whatever
expiry it is given: the check that it lies in the future (`store.go:137`) is
made in nanoseconds against a time the command read before it opened the
database, the row keeps whole seconds and may wait for the write lock, so a row
may turn up that has already expired.

### StoreCalls and StoreTx

`Conns` are the callers: handlers, and admin processes with a connection of
their own. In `StoreCalls` a caller makes a call (`Make`), is answered (`Answer`)
and goes on (`Take`); between the two the call is performed in one step with an
operation of `Store`, or refused, or fails and changes nothing. After an error
the caller does not know: the process may have died after COMMIT.

`StoreTx` has one action per SQL statement. `stage[c]` is the statement a
connection is about to execute. SQLite lets one connection write at a time
(`writer`); `BEGIN` takes no lock, the first `INSERT` does. `draft` is what the
open transaction has written and nobody else sees. A single statement outside a
transaction takes and gives back the lock in its own step. `StatementFails` may
happen before any statement (busy timeout, cancelled request, I/O error, death
of the process); `Return` is the deferred `Rollback`. That a statement waiting
for the lock gives up is `BusyTimeout` (`store.go:115`), the only reason for
which a failure is assumed to come.

`ImplementsStoreCalls` maps the variables they share to themselves. One call
does not meet the promise one would expect: `RevokePhrase` runs `UPDATE` and
then, when no row changed, `SELECT`, and a phrase added in between makes it
answer that a phrase is revoked which is not. It takes a revocation of a row id
that does not exist yet, so `StoreCalls` admits exactly that (`Overlook`: the
phrase was not on record when the call was made) and nothing more.

### Webhook

`Slots` are the requests step-ca may have under way at once. `pc[s]` is where
the handler of slot `s` is:

| `pc` | Next thing the handler does | Code |
|---|---|---|
| `lookup` | reject what is malformed; `Allowlist.Lookup` | `server.go:175-312` |
| `clock` | read the time | `server.go:333` |
| `match` | fetch the active phrases, compare the challenge | `server.go:334-353` |
| `enroll` | `Store.Enroll` with a matched phrase, one after another | `server.go:354-364` |
| `pin` | `Store.PinFor`, compare | `server.go:314-326` |
| `answered` | nothing: step-ca has the answer, or knows it gets none | |

A request (`Request`) keeps what the decision depends on: whether it is well
formed and signed, which provisioner, which host (`Null` when `identify`
refuses the names), key, transaction ID, and the pair the challenge was computed
from. HMAC is taken to be collision free. Any key may come with any transaction
ID: the code recognises a retry by the transaction ID only (`store.go:249`), and
nothing checks that scepclient derived it from the key. What the code gives is
therefore `OneTransactionPerUse`. That "a *new* key with an already-used phrase
is refused" (`webhook/README.md:235`) rests on the client's derivation,
`TxnDerivesFromKey`: with it one transaction is one key
(`SingleKey`, section 4). No module assumes it.

`PhraseAdd(p, read, life)` inserts a row now whose expiry was reckoned from a
second `read` that may be long past, with a lifetime that may be less than a
second (`admin.go:91` asks for a positive one): 0 seconds of the store's clock,
so such a row has expired when it is inserted, or is active for a handler that
read its time a second earlier.

The database may fail at every statement (`DatabaseFails`), step-ca may lose a
reply, ask again after an error, give up or issue, a client may send the same
request again much later (`Arrive` takes any request at any time), the process
may drain or die and come back, the administrator and the timer may do anything
at any moment.

`Observe`, a conjunct of every action, keeps the history variable `window`:
for each request, which of three marks held at some time since the webhook took
it: *listed* (the host is on the list with the serial the challenge is for),
*entitled* (its phrase is on record, not revoked, and expires after the second
in which the request came, `arrived`; or its key is pinned), *blocked*
(something was in its way, its phrase not being active at the present second
included). A phrase stored late may entitle a request that came before it
expired, because the handler may have read the time then; one that had expired
when the request came never does. `grants`, `enrolled` and `certs` record what was allowed and
issued. None of the history variables is read by a guard.

`LookupFails` may happen at any time (the file may be unreadable for a moment,
or for good when the list is `Null`). `ReadClock` is a step of its own because
the phrases are fetched after the time is read.

`Enrollment` says the same without requests, handlers or tables. Its `bought` is
the set of grants of `Webhook` (phrase, host, transaction ID, key), `pinned` the
keys of the pins, and a step of `Webhook` is a purchase, an issued certificate,
a reset, an unpinning, or nothing (`ImplementsEnrollment`). A purchase is the
first with its phrase for its host or under the transaction ID of the earlier
ones. A late repeat of an old enrollment is in it a purchase made before: it may
bring an old pin back, as `webhook/README.md:235` accepts, and can do nothing
else.

### Allowlist and DeviceList

`Webhook` lets a handler read the list in one step. `Lookup` is many: take the
mutex, `stat` the path, compare with the stamp (mtime and size) of the cached
devices, and if it differs open the file, `fstat` it, read it, parse it, and
replace devices and stamp together. `Allowlist` has one action for each; a file
is a few blocks read one at a time, so a reader may see the start of one version
and the end of another. A file that is renamed over (`dtw-refresh`) leaves a
reader the old one (`old[r]`); one that is written in place changes under it.
`Fails` may happen at any read (no file, no permission, I/O error, a list that
does not parse). `seen[r]` is history: the contents the path had during the
call.

`DeviceList` is the promise `Webhook` rests on: a call either fails or answers
from the list as it was at one moment between the call and the answer.
`ImplementsDeviceList` is the refinement; the moment is the `stat` that finds
the cache current, or the `open`. It holds where files are replaced by renaming;
where somebody writes in place a mixture that parses may be answered from, and
`AnswerIsFresh` is what remains: each part of the answer was there during the
call.

### KeyPair

One action per step of `GetCertificate`: `StatCert`, `StatKey`, `Lock` (with the
comparison under the mutex), `ReadCert`, `ReadKey` (with the check that the two
fit). `Fits` says which certificates belong to which keys; a broken or empty
file fits nothing. The reloader keeps a pair under the mtimes seen *before* the
mutex was taken (`mod`); `from`, history, holds the mtimes of the files it was
really read from. `Install` replaces either file with anything: that covers
`dtw-refresh` (certificate, then key), a refresh that stops in between, a failed
download (`curl` without `pipefail` installs an empty file), and an editor. A
file written in place while it is read is a broken item between two installs.
`Start` is the first call, before the server listens: if it fails the process
exits and systemd starts it again.

### Install

One device and its webhook's database. The variables are the files of the
certificate directory (`client.key`, `client.crt`, `self.pem`, `csr.pem`, in
`main` and in the fallback's `scratch` directory), the backup, the login
keychain, and the script's own: where it is (`pc`), its environment, whether it
enrolls or renews, the try it is at, what it noted before it began (`noted`).
One action per step of `install-macos.sh` that changes a file:

| Action | Code |
|---|---|
| `Begin`, `BackUp` | 112-126, 395-423, 454-460 |
| `Prepare`, `ScepclientFiles`, then `ScepclientFails`, `Refused`, `AnswerLost`, `Issued` or `NothingIssued` | `run_scepclient`, 432-445 |
| `Retry`, `FallBack`, `GiveUp` | 440-444, 474-494 |
| `MoveKey`, `MoveCert`, or `NothingToMove` | 487-494 |
| `CleanUp`, `Restore` | 497-514 |
| `NoCertificate` | 517-530 |
| `NoteOld`, `Import`, `ImportFails`, `Supersede` | 532-679 |
| `Protect`, `DeleteRest` | 733-741 |

`Interrupted` ends a run between any two of them; the scratch directory it may
leave is never used again (`mktemp`) and is dropped. `Allow` is the webhook's
decision in one step, which `Webhook` shows in detail; the administrator clears
pins and uses at any moment. scepclient is not in the repository: it is modelled
from what the script (412-417, 425-431) and `webhook/README.md:132` say of it,
and may fail at any time, so nothing rests on when exactly it refuses an old
`self.pem`. A certificate is its key and a serial number; expiry is left out.
The backup is a copy of a file taken whole; `chmod` modes are left out, so
`RestrictPermissions` is the same as no protection. `FallBack` follows line 478:
whatever made the renewal fail, not only a refusal.

The script looks for the certificate after an exit code of 0 (487, 519), so
scepclient may end with 0 and have written none, whether the webhook had allowed
the request or not (`NothingIssued`). A fallback then throws its scratch key away
and goes on with what was there; so does a renewal; a device without a
certificate stops (`NoCertificate`). Two things come of it that the properties
leave room for. That exit removes no key it has made, unlike the one for a
failed request (501-504), though the comment at 418-420 and
`webhook/README.md:237` say that a failed first enrollment removes its key. And
a run that goes on with the old certificate lists it as superseded and imports
it again; whether the keychain takes it (it may refuse, `ImportFails`) and what
is left after the removal is the keychain's affair.

`before` and `mishap` are history. `mishap` says that an answer to an allowed
request was lost, a run interrupted, or no certificate written, and none has been
issued since: then the pinned key may be one the device has thrown away (a first
enrollment removes the key it made), which is why `PinnedKeyIsHeld` excludes it.
`FailedRunLeavesFiles` says nothing of a run that fails at the import (654-660):
it keeps the new certificate on disk, as the script means it to.

### Names

A text is a sequence of characters, and the operators are the functions of
`challenge.go`, `identify` and `dnsNames` of `server.go`, the loop of
`List.load`, `readSecret` and `cmdChallenge` of `admin.go`, and the pipelines by
which `install-macos.sh:382` and `install-windows.ps1:301` read a serial number.
An error is the value `Error`. The only state is a text somebody is writing, so
that TLC goes through all of them up to a length; each property reads it in one
of its roles. Two letters have an upper case; `dotless` stands for the characters
beyond ASCII that Go's `strings.ToUpper` makes an ASCII letter of (U+0131,
U+017F; `ToUpper` is what line 248 does to a name, `Upper` what is left of it
where only ASCII can occur); `vt` stands for the white space
that `strings.TrimSpace`, `sed` and .NET trim and `NormalizeSerial` does not.
HMAC and base64 are the pair of their arguments. What loops over a text or a
list in the code is a left fold (`Split`, `Without`, `Distinct`, `Join`,
`ParseList`), so that it can be proved about; `ParseList` gives the devices in
the order of their lines. The byte order mark and the
note of an allowlist line are left out, and so is `install-windows.bat`: it asks
PowerShell for the serial number and the challenge with a `|` between them (420),
so `ChallengesAgree` extends to it only for serial numbers without one.

## 3. Properties and runs

| Property | Says |
|---|---|
| `UsesAreGrants` | the table of uses is exactly the enrollments allowed since the last reset |
| `OneTransactionPerUse` | those of one host with one phrase are all under one transaction ID, and not a blank one |
| `PinIsEnrolled` | a pin was enrolled by that host, and agrees with the use it came from while that is on record |
| `CertsAreEnrolled` | certificates only for enrolled keys |
| `AllowedWithinWindow` | what is allowed was listed, and its phrase on record, not revoked and to expire after the second the request came (or its key pinned), at some time while the webhook had the request |
| `DenyHasCause` | what is refused was blocked at some time while the webhook had it |
| `ImplementsEnrollment` | every step of the whole webhook is one of `Enrollment` or changes nothing there |
| `EveryRequestAnswered` | every request gets an answer, or is lost with the process |
| `RevokedPhraseIsNotUsed` | (from a comment of the code; violated) a revoked phrase is used up by nobody |
| `TxInv` | what a connection found out by its earlier statements is still so at the next |
| `ImplementsStoreCalls` | each call of the store takes effect in one step or not at all, and answers accordingly, whatever runs beside it and wherever it stops |
| `LockIsReleased` | whatever a call returns and wherever it fails, the write lock is given back |
| `CacheIsCurrent` | a cached list that a `stat` of the file takes for current is the file's |
| `AnswerIsFresh` | every part of a list that is answered from was in the file during the call |
| `ImplementsDeviceList` | `Lookup` is one look at the list at one moment of the call |
| `LookupReturns` | every call returns |
| `KnownIsCurrent` | a pair whose mtimes a `stat` finds unchanged is the pair on disk |
| `QuietHandshakeIsCurrent` | a handshake nothing goes on around is given the pair on disk |
| `LastGoodIsKept` | a renewal that is half done never makes a handshake of a running server fail in the load |
| `NeverBackToOldPair` | the pair kept never goes back to an older certificate or key |
| `HandshakeEnds` | every handshake ends, and a load that fails gives the mutex back |
| `FailedRunLeavesFiles` | a run whose request fails leaves key and certificate as it found them; one that stops for want of a certificate keeps those it found |
| `RequestIsCurrent` | what is sent is for this request's key and challenge, never a cached one |
| `ImportsMatchingPair` | what goes into the keychain fits the key beside it, also after an interrupted move, unless the run found the two so and was issued nothing |
| `PinnedKeyIsHeld` | the pinned key is one the device has, unless an answer was lost, a run interrupted or a certificate missing |
| `IdentityIsKept` | a run with a new certificate never takes the last identity from the keychain, and when it succeeds leaves its certificate there |
| `SelfGoesWithKey` | (from a comment of the script; violated) nothing is sent with the `self.pem` of another key |
| `ChallengesAgree` | a device whose line the allowlist accepts has one challenge, the server's, in the shell and the PowerShell script and the `challenge` command |
| `ListIsOneToOne` | an accepted allowlist has one device per line, no host and no serial number twice in any spelling |
| `PhraseSurvives` | a phrase that may be added comes back unchanged from a file and stays one word |
| `PhrasesAreDrawnWidely` | phrases are drawn from `MinWordlist` different words, and may be added |
| `NamesStayWithHost` | every ASCII name in an accepted request is, label by label, the host's or below it |

| Run | Bounds | Shows |
|---|---|---|
| `webhook_race` | 1 host, 1 phrase, 2 keys, one of them also under the other's transaction ID, 2 slots, step-ca's retry | the race for one phrase, every failure; the refinement of `Enrollment` |
| `webhook_input` | 2 hosts, 2 serials, 11 kinds of request, 1 slot, 1 tick, lifetimes of 0 and 1, a list that drops a host, moves its serial or does not load, fair handlers | malformed requests, blank transaction IDs, expiry, rows stored late and already expired, changes of the list under a request, renewal of old and foreign keys, step-ca's retry; the inductive invariant itself, `OneTransactionPerUse` among its parts; liveness |
| `webhook_revoked` | 1 host, 1 phrase, 2 keys, 2 slots | the first finding below |
| `store_tx` | 2 connections, 1 phrase, 2 hosts, 2 keys, 3 transaction IDs, every call, fair statements | the refinement of `StoreCalls`; the write lock |
| `allowlist_cache` | 2 readers, files of 2 blocks, 3 writes of any of 4 contents | the cache under in-place writers and renames; its inductive invariant |
| `allowlist_refines` | 2 readers, 2 writes, no in-place writer, fair readers | the refinement; liveness |
| `allowlist_coarse` | 1 reader, 2 mtimes, one of which may be given out twice | the second finding below |
| `keypair_race` | 2 handshakes, 3 certificates, 2 keys that fit them, 2 changes of each file | every safety property of the reloader; the inductive invariant itself |
| `keypair_live` | 2 handshakes, 2 pairs, 1 change of each file, fair handshakes | its liveness |
| `install_runs` | 1 Mac, 1 phrase, 3 keys, 3 serial numbers, 2 tries | every safety property of the script; the inductive invariant itself |
| `install_self` | as `install_runs` | the third finding below |
| `names` | 12 characters, texts of up to 4 after each of 3 beginnings, names to 3 and phrases to 4 characters | the texts |

Why the bounds are enough: the tables are indexed by host and by (phrase, host)
and no operation but `ResetUses` looks at two rows. Two slots give the race,
and a third request arrives when one of them is free again; a reset gives the
host that moves to a new key while its old enrollment may still come back. Rows
of two phrases meet in the pin only, and the theorems have any number of them. What
a request is allowed on concerns that request and what changes around it, so
`webhook_input` has one slot and a second host that takes over the first one's
serial. One tick lets a phrase expire between reading the time and fetching
phrases, or before its row is inserted. The theorems of section 4 hold for any
number of all of these. `MaxTries` is step-ca's one retry. Slots are symmetric where the run has no
liveness property. `EveryRequestAnswered` runs with one slot: a handler waits for
no other, only for the database, which may fail at any statement.

Two connections show every interleaving of two calls, and the write lock keeps a
third out of the only transaction that has more than one statement. In `names`,
four characters are a letter with a blank on each side and one inside, a second
line of an allowlist (after the beginning `a,b`), or a DNS name that begins with
a host's name (after the beginning `a`, line end, `a`).

The mutexes serialise loads, so two readers show one that waits with old stats
behind one that loads; two changes of a file give a stat, a read and a later
stat three different versions. Two blocks are enough for a mixture of two
versions. In `MCAllowlist` one of the four contents does not parse and two that
do have the same size; in `MCKeyPair` one renewal takes a new key, one keeps it.

`install_runs` needs three keys: the one on disk, the fallback's, and one of an
earlier run still in the keychain. Keys free again are used again, so runs go
on without end. Two tries give a first one, a repeat and the last.

Fairness: `FairSpec` gives each handler weak fairness and nothing to anybody
else. Go runs each request in a goroutine of its own; every step is a bounded
computation or an SQL statement, which ends at the latest with the busy timeout
(`store.go:115`). `TxFairSpec` gives each
connection weak fairness of its next statement or, while another one holds the
lock, of the busy timeout. The fair specifications of `Allowlist` and `KeyPair` add
strong fairness of the step that takes the mutex: Go's `sync.Mutex` hands itself
to a waiter that has waited longer than a millisecond. Nothing is assumed of
writers, clients, or the process.

### Findings

`store.go:201` ("RevokePhrase invalidates a phrase immediately") and
`main.go:23` ("stop accepting a phrase immediately") promise more than the code
does: a request that fetched the active phrases before the revocation committed
uses the phrase up and pins a key after it, because neither `decideEnroll` nor
`Enroll` looks at the phrase again. `webhook_revoked` shows the eight-state
behaviour. What does hold is `AllowedWithinWindow`: the phrase was not yet
revoked at some time while the webhook had the request.

`allowlist.go:60` ("It picks up changes to the file first; ... rather than a
stale answer") and `webhook/README.md:208` ("re-read when it changes") hold only
where every write gets an mtime of its own or another size. File systems stamp
files in ticks of a few milliseconds, and `refresh` (`allowlist.go:82`) compares
nothing else: two serials swapped within the tick in which the list was read are
not noticed until the next write. `allowlist_coarse` shows it. All other runs
and the theorems about `Allowlist` assume distinct mtimes (`~Coarse`), `KeyPair`
has them built in. `dtw-refresh` writes every five minutes, so what its timer
installs satisfies the assumption.

`install-macos.sh:417` says `self.pem` "goes whenever the key does". The fallback
replaces the key (488) and leaves the old `self.pem` beside the new one;
`run_scepclient` removes it only where there is no key file at all (436), so it
stays for every later run. If scepclient signs with it, as the comment says,
every later renewal fails, and falls back, using a phrase up each time.
`install_self` shows it. The Windows scripts leave it behind as well.

Three more sentences promise more than the code does; no run shows them, the
models only leave room for them. `server.go:212-214` says that every name is the
hostname or one of its subdomains, but line 248 compares names raised by
Unicode's rules, under which a name with a dotless i or a long s becomes an
ASCII one; nothing has checked by then that names are ASCII, and
`NamesStayWithHost` speaks of those that are. `install-macos.sh:418-420` says
that a failed first enrollment removes its key, which the exit at 519-530 does
not (`Install`, above). `webhook/README.md:235` says that a new key with a used
phrase is refused, which the code does for a new transaction ID (`Webhook`,
above).

## 4. Proofs

`WebhookProofs` proves, for every set of hosts, keys, phrases, transaction IDs,
requests and slots, that `Spec` implies each safety property above except the
refuted one. The assumptions are `StoreAssumption` and `WebhookAssumption`:
`Null` is no value, lists are valid (the loader refuses others), lifetimes are
numbers. TLC evaluates both in every run. The corollary `SingleKey` alone has a
premise about clients, `TxnDerivesFromKey`, and gives one key per use
(`OneKeyPerUse`).

The argument is the inductive invariant `IInv`. No property is inductive by
itself: single use needs to know that the use on record carries the transaction
of the grants (`UsesAreGrants`), and a certificate that a grant is for a key some
request asked for (`GrantsAreRequested`); "allowed within the window" needs what
a handler still knows after each of its steps (`HandlerInv`), which stays true
because windows only grow (`WindowsForgetNothing`) and count the present
(`WindowsCountThePresent`). A handler that fetches the phrases judges them by a
time it read earlier, and a row may have been inserted since that has expired
meanwhile: but the time it read is not before the one at which the request came
(`ArrivalsArePast`, `HandlerInv`), so a phrase active then is to expire after the
request came, which is what *entitled* says. "Refused with a cause" needs
`RefusedIsSpent`: a refusal by `Enroll` is always due to an earlier grant.

`EnrollmentProofs` proves that `Webhook` implements `Enrollment`, from `IInv`
before and after each step, for every set of requests: that a purchase is under
the transaction ID the phrase was used up with is `UsesAreGrants` before the
step, that a certificate is for a key bought is `AllowedAreEnrolled` before it;
every other step of a handler, of step-ca or of the process is not seen.
`StoreAssumption` says for it that `Null` is no row.

`StoreTxProofs` proves, for every number of connections and every set of calls,
that the statements implement `StoreCalls`. The inductive invariant `TxInv` says
what a connection may still count on at its next statement: the draft differs
from the committed tables in its own use and pin only (`TransactionInv`; nobody
else writes while it holds the lock, `LockProtects`), a use that was there is
still there when its transaction ID is compared, and a phrase that the `SELECT`
of `RevokePhrase` finds was revoked before or was not there when the call was
made (`BetweenInv`; rows are never deleted, `RowsStay`). With it each statement
is a `Perform`, `Refuse`, `Fail` or `Overlook`, or changes nothing a caller sees.
`TxAssumption` says that `Null` is neither a connection nor a draft.

`AllowlistProofs` proves, for every number of readers and blocks, every set of
lists and every size function, `TypeOK`, `CacheIsCurrent` and `AnswerIsFresh`
where mtimes are not given out twice (`~Coarse`), and the refinement of
`DeviceList` where in addition nobody writes in place (`~InPlace`). The
assumption `AllowlistAssumption` says what `Null` is not and that sizes are
numbers. The invariant `IInv` adds to `CacheIsCurrent` that mtimes grow
(`MtimesGrow`: a file nobody has read has an mtime nobody remembers), that a
stamp on its way into the cache no longer matches a file that changed since
(`OpenInv`), and that what is read and kept was seen (`AnswerInv`). The
refinement needs `Handle(r).mtime = stamp[r][1]` for a reader with the file
open: without in-place writers what it reads is what it opened.

`KeyPairProofs` proves the safety properties of the reloader for any number of
handshakes, certificates and changes of the files. `KeyPairAssumption` says
that a pair that fits is a certificate and a key, and what `Null` is not. No
property is inductive by itself: `KnownIsCurrent` compares mtimes taken before
the mutex with files read under it. `IInv` adds that mtimes grow (`MtimesGrow`),
that what a handshake saw before the mutex is no newer than what it reads under
it, and what it reads no older than what is kept (`HandshakeInv`; only the
holder of the mutex loads, `Mutex`), that the pair kept is at least as new as
the mtimes it is known by (`CacheInv`), that a handshake nothing goes on around
knows what is on disk (`QuietInv`), and that nobody is served before the first
load (`ServerInv`), from which `LastGoodIsKept` follows. The action property
`NeverBackToOldPair` needs the last conjunct of `HandshakeInv` for the
certificate and `CacheInv` for the key.

`InstallProofs` proves the safety properties of the macOS script for any number
of keys, certificates, phrases and tries, with the administrator acting in
between and a run stopped anywhere. `InstallAssumption` says that keys are
transaction IDs (as in `Webhook`), that there is at least one try, and what
`Null` is not. `IInv` follows the course of a run: until it has a certificate,
what it found is there or can be brought back (`BeforeInv`, with `BackupInv`:
`bak` is never restored where there was no certificate); what it sends was made
for this try (`RequestInv`); a certificate it was issued is new, fits the key
beside it, is for the pinned key and is in the keychain before older ones go, and
without one there was a mishap (`IssuedInv`); until then the pinned key is one
the run began with (`HeldInv`).

`NamesProofs` proves the five properties of `Names` for texts of every length,
every alphabet and every limit. `NamesAssumption` says that texts to start from
are texts, limits are numbers and `Error` is neither a text nor a list. The
operators are folds, which the library defines by choosing a function that
satisfies a recursive equation, and what they compute needs induction. Its
theorems take a predicate as a parameter, so `NamesLaws` goes another way: a
set of numbers, or of texts, that has the first and with each one the next has
all of them, because a counterexample would have a least (`Least`,
`NumberInduction`, `TextInduction`). A function that satisfies the equation is
shown to exist (`FoldExists`) and to be unique where it is used (`FoldUnique`),
whence the laws of each fold: what it is of no text, and of a text with one more
character. From these come the laws the theorems use: trimming takes off
exactly what surrounds a text that neither begins nor ends with white space
(`TrimIs`), a serial number the server accepts has nothing left that only the
clients would trim (`SerialIs`), line ends inside it cannot occur
(`MacSerialIs`), a name that begins with a hostname and a dot has its labels
first (`SplitKeepsPrefix`), and the allowlist read so far has one device for
each line with content, none of them twice (`ListInv`, by induction over lines).

So every safety property and every refinement that a passing run checks is also
a theorem. Only model-checked are the liveness properties
(`EveryRequestAnswered`, `LookupReturns`, `HandshakeEnds`, `LockIsReleased`): they rest on fairness, hence on ENABLED, which the provers do
not reason about.

## 5. Not modelled

* Signature check, JSON and ASN.1 decoding: whether they succeed is part of a
  request.
* The listing commands, logging, flag parsing: they change nothing.
* Tool downloads, CA trust and the mTLS test of the install scripts, a device
  that uses the static challenge, and the Windows scripts (the same steps without
  the backup).
* Terraform modules and deploy scripts: declarative or straight-line.
* `main.go` dispatches arguments, `testsecret` draws random values for tests.
* That a dropped answer to a first enrollment costs the device its phrase, and
  that a failed download may install an empty allowlist: no document promises
  otherwise (`mishap` in `Install` marks the first).

## 6. Plan

1. What `GetCertificate` promises as a module of its own, with a refinement: a
   handshake is given the pair kept at one moment of it, and what is kept only
   changes for a pair of which each part was on disk during a handshake.
2. Several Macs with one database, and the Windows scripts' order of steps.
3. The single use of a phrase on the level of statements: `OneTransactionPerUse`
   of `StoreTx`, through its refinement of `StoreCalls`.
