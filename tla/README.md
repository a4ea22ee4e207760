# SEDManager in TLA+

SEDManager configures self-encrypting drives (TCG Opal and relatives): it opens a
drive, talks to its *trusted peripheral* (TPer) through IF-SEND and IF-RECV
commands, starts sessions on the drive's security providers and reads and writes
their tables. On top of that library sit a CLI, a C API and a Flutter GUI with two
wizards. This directory holds a model of it in TLA+, the configurations that check
the model with TLC on small instances, and theorems about it that TLAPS proves for
every value of the constants.

Paths below are relative to `src/src/` of the repository. `PROJECT.json` maps every
definition to the lines it stands for.

## The system

### Components, their state and operations

| Component | State | Operations | Modules |
|---|---|---|---|
| Packet exchange (`lib/TrustedPeripheral/TrustedPeripheral.*`, `MethodUtils.*`) | mutex of the TPer object; in each exchange its receive buffer, backoff, packets received | `ExchangePacket`, `ExchangeStructure`, called by `SendPacket`, `VerifyComId`, `StackReset` | `PacketExchange`, `SerialCalls` |
| Discovery (`lib/TrustedPeripheral/Discovery.*`, constructor of `TrustedPeripheral`) | the drive's description, the ComID | parse the features, request or choose a ComID | `Discovery` |
| Sessions (`lib/TrustedPeripheral/Session.*`, `SessionManager.*`, `Login`/`End` of `EncryptedDevice`) | session numbers, whether the session is live | `Start`, `End`, destructors; `Get`, `Set`, `Next`, `Authenticate`, `GenKey` | `Sessions`, `Tables` |
| `MockDevice` (the drive of the tests) | one unread response per layer, session table, security providers with their tables | `SecuritySend`, `SecurityReceive`, `StartSession`, `EndSession`, `Get`, `Set`, `Next`, `Authenticate`, `GenKey`, `Revert`, `Activate` | `PacketExchange`, `Sessions`, `LockingWizard`, `Tables`; its answers in `MethodCalls`, its rows in `Names` |
| `EncryptedDevice`, `SimpleSession` | TPer object, session, table streams | `Start`, `Login`, `StackReset`, `Reset`, destructors; rows, columns, values, passwords, keys | `Devices`, `Tables` |
| Messaging and archive (`lib/Messaging`, `lib/Archive`) | none | values, tokens and bytes; method calls; com packets | `Packets`, `Tokens`, `MethodCalls` |
| Values as JSON (`EncryptedDevice/ValueToJSON.*`) | none | render, parse | `ValueJson` |
| Specification modules (`lib/Specification`, `ModuleCollection.*`) | the modules a drive calls for | names, UIDs, table descriptions | `SpecData`, `Names` |
| CLI shell (`SEDManagerCLI/Interactive.cpp`) | device, session, authorities | commands | `Shell`, `Tables` |
| Pre-boot authentication (`SEDManagerCLI/PBA.cpp`) | the session of one drive at a time | unlock every drive | `PreBoot` |
| C API and its Dart bindings (`SEDManagerCAPI.cpp`, `bindings/future.dart`) | futures, streams, the last error, open callbacks, the pool thread | start, advance, call back, read the error | `CapiFutures` |
| GUI wizards (`SEDManagerGUI/lib/interface/locking_wizard.dart`, `factory_reset_wizard.dart`, `components/wizard.dart`) | page, fields, check and action under way | open, next, back, cancel; the functions that log in | `LockingWizard` |
| GUI pages, table editor | session per page | open, edit, change password | one action of `LockingWizard`; `Tables` |
| Storage devices, errors and logging | none the rest depends on | system calls | not modelled |

### How they interact

A GUI page (or the CLI) calls the C API or `EncryptedDevice`; that calls a
`Session`; a method of a session is encoded and handed to the TPer object, which
performs one exchange with the drive while it holds its mutex. Everything between
the GUI and the drive is a coroutine: it runs on the single pool thread, and every
`co_await` or `await` lets others run. Nothing above the mutex serialises anything:
two pages, or a page's check and its action, run side by side and meet at the drive,
which refuses a second session on a security provider that has one. Results come
back to the GUI as messages from the pool thread to its own; an error comes apart from
its message, in one global variable.

A session shares the TPer object it was started on, and the TPer object resets its
stack on the drive when the last reference to it goes. A reset of the device replaces
the TPer object; so what one command releases may run a reset under what the next
command has started.

### What is hard in it

* **Matching answers to requests.** A response carries no request number, and the
  host compares nothing. Only the order of IF-SEND and IF-RECV pairs them, and only
  the mutex keeps the order. An exchange that gives up (time-out, too large, failed
  IF-RECV) leaves its response behind for the next one; two TPer objects on one drive
  do not exclude each other.
* **Sessions that outlive their owner.** A lost answer to `StartSession` leaves a
  session nobody knows; a lost `EndSession` leaves one that keeps its provider busy. How
  often the end is tried depends on how the session is given up: twice by
  `SimpleSession::End`, once when the shell's `start` assigns another one over it.
  A late END_OF_SESSION is executed when somebody else may have the provider.
* **Configurations in many steps.** The wizard takes a drive from its factory state
  to a locked one in about fifteen remote calls over six sessions. Any of them may
  fail, the program may end between two of them, and it must be possible to run the
  wizard again. At no point may the drive be lockable with nobody to unlock it.
* **Checks beside actions.** A wizard page asks the drive something when it is
  shown; the user may press Next meanwhile.
* **Lifetimes.** A replaced TPer object lives on in its sessions, and its destructor
  resets the drive's stack whenever the last of them goes; one is made only to look at a
  drive. A reset that fails halfway leaves a session the drive no longer knows.
* **Two threads and one error.** The exception of a failed call is read from a global
  variable when its message arrives, and others may have failed meanwhile. Every call
  and every element of a stream has a native callback that somebody has to close.
* **Streams of calls.** Rows are listed one remote call at a time while other clients
  write, list and generate keys; changing a password reads a reference and uses it later.
* **Conversions with edges.** Atoms have four header forms and padding has its own rule;
  optional arguments are told from required ones by their place; alternatives,
  references and names are told apart in JSON by their form. A drive may answer with less,
  more or something else.
* **Lists by hand.** UIDs, names, columns and types are several hundred lines written by
  hand in several modules, merged in an order that depends on an unstable sort, and used
  by column numbers elsewhere.
* **Drives that differ.** Pre-boot authentication meets drives that refuse anything at
  any point, or are held by somebody else, and must still get to the last one.

The full list, each at its line and with the properties that cover it, is in
`PROJECT.json` under `hazards`.

### What makes each component correct

* Packet exchange: a call returns the response to its own request or an error; it
  ends, within a bound on its sleeping, whatever the drive does; to its users it is
  a serial remote call.
* Sessions: a live session is known to the drive; at most one per provider; a session
  left behind is explained by failures; ending one ends no other; ending terminates.
* Wizards: nobody is locked out; success means configured; an owner's password is
  kept; every session is ended; the wizard can be completed.
* Device object: a session of the drive has an object that will end it and that keeps
  its TPer object alive; the destructor of a TPer object never ends a session that was
  started on it, and none at all on a drive that gives out ComIDs.
* Shell: what the prompt says is so, and every command comes back to it.
* Tables: a listing is complete and in order, a get reads its cell, a password is the
  one given last.
* Pre-boot authentication: no drive, range or side keeps another from its turn.
* C API: every call is answered once and in full, the callback of a future is closed, an
  error shown is not an older one.
* Conversions: what goes in comes out, or an error does; failures of a drive are never
  taken for results; what is shown can be sent back and changes nothing; names and UIDs
  mean each other; lists, column numbers and the rows of the mock drive fit.

## The modules

### PacketExchange and SerialCalls

A *call* is one exchange: the identity of its request and of the response to it.
`pc[c]` is where its coroutine stands; `holder` is the mutex of each TPer object;
`buffer`, `delay` and `received` are the locals of the loop. The drive is `box` (the
one unread response of each layer, `m_response`) and `working` (requests it has not
answered yet). Actions are the segments between two suspension points or two
commands: `Lock`, `Send`/`SendRejected`, one `Receive...` per way an IF-RECV can come
out, `Delay`. `TPerOf` assigns calls to TPer objects: with one object the mutex
covers all calls, with two it does not.

`Drive` says what the drive may do beyond `MockDevice`, whose response is ready when
IF-SEND returns: answer late, split a response into two packets, fail IF-RECV. The
polling loop is written for all three. Byte contents are left out; of a response's
size only the comparison with the buffer and with the limit matters. A drive that
keeps announcing data without sending any (`outstandingData > 1`) is left out: the
loop has no bound for it.

`SerialCalls` is what the layer above may rely on: calls execute one at a time, and a
call is refused, answered, or fails. `PacketExchange` with one TPer object and a
prompt drive implements it under `Outcome` and the set of calls that poll; a call
that ends with somebody else's response maps to no state of `SerialCalls`.

### Sessions

An exchange is one step here, as `SerialCalls` justifies. Each of `Objects` is one
`Session` with the `SimpleSession` around it, from `Start` to its destructor:
`"ending"` is the attempt of `SimpleSession::End`, `"closing"` the one of `~Session`,
which retries because `Session::End` swallows the exception and keeps
`m_sessionManager`. `Replace` is the shell's `start` over an open session: the defaulted
move assignment of `SimpleSession` drops the old `Session` without `End`, so `~Session`'s
attempt is the only one (`"dropping"`), and a failure leaves the session open
(`"dropped"`). Any other live object may be the new session. `sessions`, `nextTsn` are `MockDevice`'s. With `Lossy`, an
exchange may throw on the host while the drive has executed the request, never will,
or will do so later (`delayed`). Session numbers are unbounded; the code's 32 bit
counter would need four billion logins to repeat.

### LockingWizard

The two wizards with the drive contents they touch. `chain` has one record for each
chain of Dart functions that can run at a time: the check of each page that has one
(`ownership`, `activate`, `reset`) and the action of Next. A record names the
function, the remote call it is at (0 before the login, beyond the last call when it
is about to end its session), and what it has found out. All functions of the wizards
have this shape, so `Body` lists their remote calls and five actions, `Login`,
`LoginFails`, `Perform`, `CallFails`, `EndSession`, run all of them; what a function
makes of an exception is in `Thrown` and `LoginFails`, what is awaited next in
`Following`. The pages are `page`, `form` (what the FutureBuilder shows) and `typed`.

What is left out: rebuilding a page by resizing the window starts its check once more;
a check still running from an earlier visit stands for the one a new visit would start;
`findUid` is a lookup without effect, and if it throws the effect is that of the next
call failing; ending a session succeeds (see `Sessions` for when it does not). On a
physical drive Revert restores the factory state and ends the session; `MockDevice`'s
Revert only checks its argument, so `Reverted` is marked external. `ChangePassword` is the
one thing the table editor does that the wizards can notice; the editor's own session
is not shown together with a wizard.

### Devices

`EncryptedDevice` with the TPer objects it has had and the sessions of either. `made`
are the TPer objects constructed so far, `manager` is the one the device has, `tperOf`
what each session shares, `dying` those whose last reference has gone. `Login` takes the
current one. A reset is two steps, since it is two exchanges with a failure in between:
`Reset` sends it, which aborts the sessions of its ComID (or all), and `Reconnect`
constructs a new TPer object, unless that fails (`ReconnectFails`, `ReconnectThrows`).
`Destruct` is `~TrustedPeripheral` with its stack reset. `GetSSCs` is the temporary object
of `CStorageDevice_GetSSCs`. `SharedComId` says whether the drive has one ComID (then
a destructor aborts everybody's sessions) or gives out one to each.
An exchange is one step; what losing one does is in `Sessions`.

### Shell

Extends `Devices`: `m_session` and `m_currentAuthorities` are the shell's, `proven` is what
the drive has authenticated in each session. A command is an action that requires
`Prompt`; what it releases is destroyed by `Finish` steps before the next prompt.
`start` logs in before it lets go of the old session, and keeps the authorities;
`NotReconnected` is a reset that throws, after which the shell still holds a session the
drive has aborted (`broken`). What commands read and write is in `Tables`.

### PreBoot

`PBA.cpp` from the first drive to the last. `at` is the drive whose turn it is and how far
it is (`"start"`, `"user"`, `"password"`, `"range"`); `held` who has a session with each
drive's locking provider, `locked` the sides of ranges that are locked. A `Flaky` drive
may refuse any request; `Refuse` is what `UnlockDevice` catches, `OpenFails` and `NameFails`
what nothing catches. A busy provider is reset once, which frees it of a session of our
ComID and of no other's. `TryDoMBR` sets a column of the table's UID instead of its row's;
the drive refuses, the exception is swallowed, and `mbr` stays empty in every behaviour.

### MCProgram

`main.cpp` runs the shell or the pre-boot program, and the GUI uses devices in any order:
`mode` says which of `Shell`, `PreBoot` and `Devices` a behaviour runs.

### Tables

The contents of a security provider and what sessions do with them: `MockGet`, `MockNext`,
`MockAuthenticate`, `GenKeyable` are the drive, `Labelled` and `Got` what `BaseTemplate::Get`
makes of labelled values, and each client is a stream or a command between two calls.
A refusal ends the stream of columns; `get` compares the column with the table's
description, `set` does not (`Outside`: it reads behind the end). `Labelled` passes a label
that is one too large, as the code's `>` does; the result is `Outside`. `StrangeDrive` may
send labels nobody asked for. `secrets` is the password each authority should have.

### CapiFutures

The user interface's thread and the pool's, with the queue of `messages` between them.
`call` is how far each future or stream is, `callables` counts the native callbacks of
each, `failures` is the history of the global exception, of which `lastException` is the
end. A failing coroutine first stores its exception, then posts (`Fails`, `PostsError`);
the message is taken later and the error read then (`Reports`). A synchronous call fails
and reads in the user interface's thread, with room for the pool in between.
A listener may `Cancel`; the generator notices at its next element.

### Packets, Tokens, MethodCalls

The way of a call through all layers. `Tokens` has values, tokens and bytes: an integer
keeps its width and sign, lengths are the real ones, so that 15 and 16, 2047 and 2048
bytes lie on the two sides of a header's limit. `MethodCalls` packs arguments, wraps them
in a call, has the drive decode and answer, and decodes the answer: by result or by call,
with any status, closed, or split over two sub packets of which the host reads the
first. Values are nested: what is made of them is a recursive function over how deep they
are (at most `MaxDepth`, the bound), what is read of tokens one over how many are left. They are
functions and not `RECURSIVE` operators so that theorems can speak of them, and the theorems hold
for every `MaxDepth`. `MethodsAssumption`: a UID has eight bytes, a status one. `AnswersAssumption`:
what a drive sends holds a value at every place, so it can be tokenized.

`Packets` saves a com packet and loads it with the code's nested loops, one header
a step. Its padding is counted but not skipped (`ComPacket.hpp:127`), so `RoundTrip` speaks
of com packets that are padded at the end only, as everything the host sends is; of the
others it says that they are the only ones that fail to load.

`Sums` has the arithmetic of layouts, shared with `Discovery`: where the pieces of a sequence end,
and what they are together. Its definitions are recursive functions, not `RECURSIVE`
operators, so that theorems can speak of them. `PacketsAssumption` says what the fields of
a packet can hold: bytes in the payload, and no number that needs more than four bytes.

### ValueJson

`ValueToJSON`, `JSONToValue` and the types they go by. A value is shown, edited or kept and
written back over the tokens to a drive that shows it again, any number of times. Texts
are sequences of character codes, UIDs eight bytes, so that parsing UIDs, hexadecimal
bytes and names is the code's. The JSON itself is a tree, but `dump` and `parse` throw on
a text that is not UTF-8 (`Strict`), which bytes shown as text may be: a get then shows an error
(`"unreadable"`) over which the user may still write, and a set of such a text sends nothing.
`Readable` says that this can only happen to what a drive held before, never to what was typed.
`MCValueJson` has the types, stored values and typed texts, some of them not UTF-8.

### Discovery

The walk over the features of a level 0 answer, with the lengths they and the header
declare, then the ComID. `LengthBias` says what a drive counts into the answer's length:
the features alone, as the mock drive, or the rest of the header too, as the standard. The
properties speak of the features that are as long as their description (`Complete`), and
compare what was learned with the drive's list itself, not with a second parse of it.

### SpecData and Names

`SpecData` is what the modules list, `Names` how a drive's features choose among them, how
they are sorted (by any order the unstable sorts allow) and how a name or a UID is looked
up, with or without a security provider. `ListsAssumption` says of the lists what the lookups
rest on: in each provider a name stands for one UID, and only the core has another name for
an object. It has no parameters, so TLC's evaluation of it decides it. The rows of `Preconfig.cpp` are in `MockAdmin` and
`MockLocking`, each cell by its kind.

### MCConversions

`Packets`, `MethodCalls`, `ValueJson`, `Discovery` and `Names` share no state. Each behaviour
runs one of them while the others are idle.

## What is model-checked

| Run | Instance | Shows |
|---|---|---|
| `exchange_mock` | 3 method calls, 1 structure, one TPer object, MockDevice | `OwnReply`; the refinement `SerialSpec` |
| `exchange_two_tpers` | 3 method calls and 2 structures over two TPer objects | `NoReplyTwice`, `EveryCallEnds` |
| `exchange_late` | 2 method calls, 1 structure; late, splitting, faulty drive | `TypeOK`, `OwnReplyUnlessGivenUp`, `WaitBounded`, `EveryCallEnds` |
| `sessions_mock` | 4 sessions, 2 providers and an unknown one, nothing fails | `OneSessionPerSP`, `NoLeak` |
| `sessions_lossy` | 3 sessions, 2 providers, each loses up to 2 exchanges | `TypeOK`, `LiveIsKnown`, `LeaksNeedFailures`, `OnlyOwnerEnds`, `EndEnds` |
| `wizard` | 3 passwords, 1 mishap, 1 detour, table editor | `TypeOK`, `NobodyLockedOut`, `SuccessMeansConfigured`, `NoOrphan`, `OwnershipKept` |
| `wizard_completes` | 2 passwords, 1 mishap, 1 detour | `OwnerIsAdmin1`, `Completes` |
| `wizard_editor` | 2 passwords, table editor | violates `AcceptedOwnerGoesThrough` |
| `program` | 4 session objects, 3 TPer objects on one ComID, 2 providers; 5 drives of every kind | `SessionsAreHeld`, `PromptIsTrue`, `EachDriveOnItsOwn`, `OwnTperIsHarmless`, `ProgramsComeBack` |
| `tables` | 2 clients on 5 tables, a drive that sends more than was asked | `RowsComplete`, `PasswordsFollow`, `GetReadsCell` |
| `capi_futures` | 2 futures, a stream of 2, a synchronous call, any of them failing | `AnswersArriveOnce`, `ErrorIsNotOlder`, `EveryCallIsAnswered` |
| `conversions` | calls, packets, values, features and names of every form | `RoundTrip`, `CallArrives`, `AnswersAreTrue`, `Editable`, `DescribesTheDrive`, `NamesAgree`, `ListsAgree` |

A property that is a conjunction of named parts (`PromptIsTrue`, `EachDriveOnItsOwn`,
`AnswersArriveOnce`, ...) has several mutants, for different parts. Every property is
stated in words above its definition. A mutant is a variant of one definition, as a
plausible bug would leave it, under which the run fails.

**Bounds.** *Exchange:* `Sizes` has a size that fits the buffer, one that makes it grow
and one that is refused; two calls already show every interference, the third shows
that a response can be left behind twice. `MaxDelay` = 3 gives two sleeps and a
time-out. *Sessions:* two failures per object are what a leak of a session takes that was
ended, one more than the leak of a replaced one; three objects are one that leaks, one
that is refused or takes its place, and one that comes later.
*Wizard:* three texts are an empty field, an owner's password and another one.
A mishap is a failing call or a restart, a detour any one of stepping back, leaving
half-way, opening the factory reset or changing the password elsewhere; with one each
a wizard is run, disturbed and run again. *Program:* three TPer objects are a device's
first, the one after a reset, and the one of a failed or temporary construction; four
session objects are two that are replaced, one held and one refused; the drives are one
that does not lock, one that does, one with a session left behind, one that may refuse
and one held by somebody else; `MaxTries` is the code's 5. *Tables:* two clients, one
listing while the other writes; tables with one row, with two and without rows to
enumerate (`singleRow`); cells with a value, empty, and on either side of what the object
and the description have. *Futures:* a stream of two has an element that is not the
last; with three calls two others may fail between a failure and its report.
*Conversions:* payloads of every length modulo 4; integers of every width, bytes on both
sides of the limits of an atom's header; `MaxDepth` = 4, since a call holds its arguments in a
list of lists, whose values may hold one more; `MaxSplit` = 40 bytes splits answers at every
place; up to three features out of nine; every UID and
name of the lists, and both ends of each numbered sequence, under up to two subsystem
classes in either order. The theorems hold for any number.

**Deadlock.** The exchange and session runs switch the check off: calls and session
objects are used once, so these instances end when all have been used; so do the calls
of `capi_futures`, the objects and the pre-boot run of `program`, and every conversion.
In the wizard runs and in `tables` it is on.

**Fairness.** *Exchange* (`FairSpec`): a coroutine that can run is resumed. The pool
thread (`SEDManagerCAPI.cpp:19`) works through its queue, the mutex resumes its
waiters, and a sleep ends; the drive owes nothing, so weak fairness is on the host's
steps only, and a call may end by timing out. *Sessions*: an exchange that was begun
ends, which is `EveryCallEnds`. *Wizard* (`PatientSpec`): chains go on, for the same
reason; and the user is one who wants the drive configured: waits for the first page
to load, types the right password, presses Next, and leaves a wizard that is done or
stuck on an error of its first page. Without a user nothing happens, and one who
always presses Next before the check has ended may be refused every time. The user's
steps need strong fairness, since a check that starts disables them for a while.
*Shell* (`BeforePrompt`): what a command has released is destroyed and a reset reconnects
or fails, because exchanges end; commands themselves owe nothing. *Pre-boot* (`Pba`): a
sequential program goes on, and a user who is asked types something. *Futures*: the
pool's thread runs what it was given and the drive answers (or the call fails), and the
user interface takes its messages; nobody has to launch or cancel anything.

**The finding.** `wizard_editor`: the page that asks for the owner's password of a
configured drive says "You can still go through the configuration and change
settings" (`locking_wizard.dart:312-313`). If that password has been changed in the
table editor since, the wizard accepts the new one and then uses it to authenticate as
Admin1 of the Locking SP, which still has the old one: the owner cannot get through.

## What is proved

Eight modules hold the proofs. Each theorem holds for every value of the constants
that the assumptions beside the CONSTANTS and in the theorem allow; none of them
bounds the number of calls, sessions, failures, drives, tables or passwords. Every
safety property of the exchange, session, device, shell, pre-boot, table, future, packet,
method, discovery and name modules and all but the finding of the wizard's is proved, but for
the two under *Only model-checked*.

### PacketExchange_proofs

`TypeCorrect`, then `Locking`: a call is between locking and returning exactly when it
is its object's `holder`, so with one object two calls are never inside together. This
is needed by everything else.

* `WaitIsBounded`: since a sleep doubles, the next one is always the sum of all before
  it plus one; a sum within the limit is thus at most about doubled by one more sleep.
* `PromptDrive` (one object, a drive that answers at once): `OwnReply` is not inductive.
  The invariant adds that outside the mutex the box of a layer may hold anything an
  abandoned exchange left, and that from IF-SEND on, while the caller holds the mutex,
  the box holds its own response or its first part has been received. IF-SEND
  overwrites the one response of a layer; this is the fact the pairing rests on.
* `LateDrive` (one object, any drive): before the first exchange gives up, every
  request that is not answered belongs to the caller inside the mutex.
* `RepliesAreUnique` (any number of objects, responses in one packet): a response is
  in one place only, in `working`, in a box or received.
* `Serialises` (one object, a prompt drive): the refinement of `SerialCalls`, step by
  step: `Lock` and every polling step stutter, `Send` executes the call, a last
  receive returns it.

### Sessions_proofs

`SafeInv` is the invariant behind `SessionsAgree`, `LeaksCostFailures`, `ReliableDrive`
and `OwnersEnd`. It relates the three places a session number can be in: every number
in use is below the counter it came from and belongs to one object (`HsnInv`,
`TsnInv`); a request that is still under way belongs to an object whose exchange failed
(`DelayedInv`); a session of the drive comes from an object that still has it, or has
lost as many exchanges as giving it up takes on the way it was given up (`OriginInv`: two by
`End`, one by a move assignment or a login that failed). `OwnersEnd` follows: the number
in a late END_OF_SESSION is never somebody else's.

`OneSessionEach`: the drive starts a session only with a provider that has none, also when
the request comes late; a part of `SafeInv`.

### LockingWizard_proofs

`TypeCorrect` includes who may do what: checks are in functions that only ask
(`Readers`), an action is in a function of the page shown (`Actors`). So there is one
writer at a time. `Safety` is the induction. `Knowledge` says for each call of the
action what the calls before it have established about the drive (`Established`) and
that an answer of "yes" is true (`Answered`); `Progress` says what the pages behind
the one shown have established. A call extends `Knowledge` (`Establishes`) and leaves
`Progress` (`WriteKeeps`); a function that returns hands its knowledge to the next
function or, at the end of the chain, turns it into `Progress` (`ActionReturns`); an
exception forgets it. Without `Knowledge` neither property is inductive: the success
page is entered by an action whose work lies several awaits back.

* `NobodyIsLockedOut`: when a range is about to lock, the calls before it in
  `_setupUser` have named the user, set the PIN and granted all rights.
* `SuccessIsConfigured`: `Progress` on the success page.
* `OwnershipIsKept`: `setSid` is reached only with `drive.sid = Msid`, because
  `authMsid` was accepted in the same session.
* `OwnerBecomesAdmin1`: needs `~TableEditor` and `Msid \notin Texts`; `Activate` copies a
  password that is the owner's and `setSid` happens only on a drive without an owner.
* `NoSessionIsOrphaned`: an induction of its own over who holds which session.

### Programs_proofs

*Devices.* `IInv` adds to the types, `OnlyOrphansDie` and `SessionsAreHeld` that every reference is to
an object that was constructed (`ReferencesAreMade`): a new TPer object is then not one
somebody already holds, which keeps failed reconnections harmless.

* `SessionsHaveHolders`, `DyingAreOrphans`: who keeps what alive.
* `OwnDestructionIsHarmless`: no destructor aborts a session that was started on its
  object, whatever ComIDs the drive gives out.
* `DestructionIsHarmless`: on drives where every TPer object has a ComID of its own, no
  destructor aborts any session. With a shared ComID this is false by design of the
  code; `program` runs with one and shows what still holds.

*Shell.* A step of the shell is a step of the device (`ShellStepsAreDeviceSteps`), so
`ShellImplementsDevices`: `Devices` is the abstract specification of anything that uses devices,
the shell is one such program, and what is proved of `Devices` holds under it
(`ShellSessionsHaveHolders`, `ShellDestructionIsHarmless`).
The properties speak of the prompt; `HeldInv` says what the shell has while it is on its
way back (its session and the one it is destroying, and no other), `SafeInv` which
destructors can be due then (none beside a session the drive knows, unless a reset has
failed halfway), `NamesInv` whom the prompt names. `PromptTellsTheTruth` follows.

*PreBoot.* `TurnInv` follows a drive that is for us from the list to the question for a user: a
provider that was reset once is free, since nobody else holds it. `PassedInv` says that
what lies behind the current row and side is unlocked as far as the user may. With
`SessionsEndWithTheirTurn` they give `EveryDriveIsServed`.

### Tables_proofs

`ListingInv`: what a stream has collected is the part of the table up to the row it has
seen last; from which row comes next, one row more (`ListingsAreComplete`). `PasswordInv`:
nobody changes the reference from an authority to its credential, so what `passwd` has
read is still true when it writes (`PasswordsAreTheLastOnes`). `TablesAssumption` says what
that takes of the drive's contents: rows without repetition, a credential of its own for
every authority, and no `set` on that reference or on a PIN. `AnswerFacts` carries
`GetsReadTheirCell`.

### CapiFutures_proofs

The queue matters only by what is in it (`InBox`); `PostFacts` and `ArrivalFacts` say
what its two ends do, and the induction does not look into the sequence again. `IInv`:
a call is posted exactly while its answer is in the queue, once (`PostedInv`, `Unique`);
an element that is under way is the one between what was sent and what has come
(`StreamInv`); who is about to read an error has stored one (`ErrorInv`).

### Conversions_proofs

*Sums and recursion.* Facts about `Sums` and `From` for sequences of any length, which both
packets and features need. The library's induction theorems take an operator as a parameter, which no prover
here can instantiate; `SetInduction` is induction over the numbers for a set instead, proved from
the pigeonhole theorem of finite sets, and `RecursiveFunction` follows from it: a function
defined step by step exists and satisfies its definition. `SumsFacts` (the sums are numbers and
grow by the next one), `SumsMonotone` and `FromFacts` (what begins at the k-th piece is that piece
and what begins at the next) are what the other proofs cite.

*Discovery.* `WalkInv` follows the walk by the number n of features read (`Walked`): they
end where the walk stands, unless it is already in the zeros behind them, all of them were
long enough, and what was learned is what the first n say. The zeros are features of a
code nobody asks for, so a length that counts too much does no harm.
`DriveIsDescribed` follows at the end of the walk. `DiscoveryAssumption`: a drive's length
counts at least its features; one that counts less would hide some.

*Com packets.* `LoadInv`, for packets padded at the end only: as long as something remains to
be loaded, `rest` is what was saved of it, and the offsets are the sums of the sizes of
what was loaded (`ComAfter`, `PacketAfter`), so that each of the two loops ends with its last
element. Once nothing remains, the padding may be left over, which is why `rest` is then free. One
lemma for each action (`ComHeaderLoaded`, ..., `ComPacketLoaded`), over lemmas about the
layout: a number comes back from its four bytes (`FlatBinaryRoundTrip`), what was put behind
one another is cut out again (`CutFirst`, `CutRest`, `CutMiddle`), what is saved of a
packet has the length its header announces (`SubPacketParts`, `PacketParts`, `SavedFacts`).
`ComPacketsRoundTrip` is `RoundTrip` for any payloads and any numbers of packets; together with
the mutants of the run it says that it is the padding alone that keeps the code's `load` from being
the inverse of its `save`.

*Names.* `Listed` is all that a finder's pairs and numbered objects say. Each finder, and so each
module in each provider, answers from its list and only from it (`FinderFinds`, `ModuleFinds`); the
collection's answer is that of the first module that has one (`FirstFoundIs`, `CollectionFinds`). So
the name a UID is shown by and the UID this name leads back to may come from two
modules, and it is the agreement of their lists that makes them the same object
(`NameComesBack`). That an object has the class's name and not the core's needs the order:
`NamesInv` says that the modules stay sorted by kind, whatever the unstable sort does
among modules of a kind (`OrdersAreSorted`), and that lookups come after loading; the module that
answers is then never the core where a class has a name (`SpecificNameShown`).
`NamesNeverContradict` holds for any number of classes a drive describes and any UIDs and names
that are looked up (`NamesAssumption`: UIDs are numbers, names are not empty); that
the lists agree is `ListsAssumption`, which is about the lists the code contains.

### MethodCalls_proofs

What one side writes is what the other reads, through values, tokens and bytes, of any size.

* *Tokens.* A token is read back from its bytes whatever follows it (`TokenRead`: the header
  tells the kinds of atoms, the flags and the length apart), so all of them are
  (`TokensRead`), by induction over how many there are.
* *Values.* `DeTokenizeIs` says what the reader finds at the n-th token from the end, given what
  it finds at later ones; every value takes at least one token (`ValueTakes`). `ValuesRead`: the
  tokens of a value, wherever they stand and whatever follows them, are read as that
  value and no further. The induction is over the depth of the value, for lists inside it over
  the items that are left (`ItemsRead`). Hence `ListsArrive`, for a whole list sent as bytes.
* *Arguments.* The value at a name is the last one given that name (`Unpacked`); `Pack` gives
  every optional argument a name of its own in two bytes, so each comes back at its place
  (`GivenPacked`, `ArgumentsArrive`). Here the level of nesting must not matter
  (`ArrivesTheSame`): an argument is deep in the call, and compared on its own.
* *The call.* `CallInv` says what is under way in each stage; with `CallHeard` it gives
  `CallsArrive`. `TokensAssumption` is that the bound is a number, `MethodsAssumption` that UIDs
  have eight bytes, statuses one, and arguments are in sequences.
* *Parts.* What is left of an answer that was cut anywhere. A token that is cut is not read
  (`TokenCut`), so of some of the bytes of tokens there are read some of the tokens, or nothing
  (`TokensCut`). A value that is cut is not read either, or it takes what the host puts behind
  (the end of its list) for its own, which then is missing (`ValuesCut`, an induction over the depth
  like `ValuesRead`). Hence `PartOfList`: of a part of a list's bytes nothing is read, or a
  list that lacks the last items. The status comes last, so such a list is neither a
  call nor a result (`PartFails`).
* *Answers.* A whole answer is read as what was sent (`AnswerIsRead`) and taken apart as the
  property says (`AnswerArrivesAs`), the closing call is a failure (`ClosingFails`). `AnswerInv`
  carries from the drive to the host which of the three is under way; `AnswersTrue` follows.
  `AnswersAssumption`: what a drive sends holds a value at every place.

A remark on the prover. Version 1.4.5 of tlapm tells its SMT backend that *anything* whose
domain is `1 .. n` has length n, and sequences are only some of those things. All leaves of these
modules were checked a second time with that axiom restricted to sequences.

### Only model-checked

* Liveness, since it rests on fairness and ENABLED: `EveryCallEnds`, `EndEnds`, `Completes`,
  `EveryCallIsAnswered`, `ProgramsComeBack`. The counterexample of the finding is a run of
  TLC, too.
* `Editable`. The operators of `ValueJson` are `RECURSIVE`, of which the provers can see nothing.
* `ListsAgree`, and the assumption `ListsAssumption` of the proof about names: statements about the
  lists the code contains, which have no constants to generalise over. TLC looks at all
  their rows.

## What the code does that a reader may not expect

Met while modelling; the models do as the code does. A property that is about one says so.

* `ComPacket.hpp:127`: the padding behind a sub packet is counted but not skipped; what
  follows a padded sub packet is misread.
* `Session.cpp:152`: a label one beyond the block asked for passes the check and is written
  behind the end of the vector (`Outside` in `Tables`).
* `Interactive.cpp:410`: `set` reads the type of a column without looking whether the table
  has it.
* `PBA.cpp:205`: the MBR's switch is set on the table's UID, where the wizard sets it on the
  row; the drive refuses, the error is swallowed, and the shadow MBR stays.
* `EncryptedDevice.hpp:22`: `start` over an open session tries only once to end it, where
  `end` would try twice; one lost exchange keeps the old provider busy (`"dropped"` in `Sessions`).
* `SEDManagerCAPI.cpp:488`, `Interactive.cpp:361`, `:381`: a password that is not UTF-8 cannot
  be shown, since `dump` throws (`Strict` in `ValueJson`).
* `Interactive.cpp`: `start` keeps the authorities of the session it replaces, so the prompt
  may name somebody who is not authenticated (`replaced` in `Shell`).
* `future.dart:234`: of the callbacks of a stream only the last is closed, and none if it
  ends with an error.
* `locking_wizard.dart:312`: the finding above.
* `Method.cpp:55`, `:102`: statuses are cut to eight bits. `Utility.cpp:16` of the modules finds
  names of numbered objects with leading zeros, too. `OpalModule.cpp:31` describes the
  DataStore table where `FindTable` does not look. `SplitName` of the CLI splits names of
  three sections wrongly.

## What is not modelled

* A drive that goes on announcing data without sending any: the polling loop has no
  bound for it, so every bound on it would be the model's.
* Session numbers wrapping around after 2^32 logins.
* A session that is ended under a stream of its rows: what a null pointer does cannot be
  modelled, and nothing in the repository does it.
* When the garbage collector runs the native finalizers of the GUI's sessions
  (`session_builder.dart:22`), and on which thread the external coroutine library releases
  a last reference: nothing in the source says.
* The exchange of Properties, whose results are never used.
* Whether a physical drive has User1 disabled: the wizard does not enable it,
  `MockDevice` does not look at the column.
* System calls of the storage devices, logging, wording of errors, layout and navigation
  of the GUI, the generated declarations of `sedmanager_capi.dart`.
