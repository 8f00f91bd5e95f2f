# Verification of the Epicenter captive portal

TLA+ models of the patched nodogsplash daemon, of the guest delivery and of the
scripts that this repository installs them with, TLC runs that check them on
small instances, and TLAPS proofs of their safety properties for all instances.
`PROJECT.json` lists the runs, the theorems, the lines every definition stands
for, the hazards of the code and what covers them. File names below are relative
to `src/payload/nodogsplash-src/`, `src/payload/` and `src/`.

## 1. The system

A guest joins the access point and is behind the portal. Every request is
answered by nodogsplash: a foreign address is redirected to the splash page,
whose form submits name, e-mail and phone; the daemon opens the firewall for the
station and appends a row to `guest_spool.jsonl`. A forwarder started by cron
posts the rows to the CMS and records what was accepted. An operator talks to
the daemon with `ndsctl`, installs all this with `install.sh`, and may move the
access point to 2.4 GHz with `fix_ap_24ghz.sh`.

| Component | State | Operations | Talks to |
|---|---|---|---|
| client states, `auth.c` | client list, firewall rules, MAC lists, `authenticated_since_start` | `auth_change_state`, `auth_client_auth`, `_deauth`, `_trust` ... `_unblock`, `_deauth_all`, `thread_client_timeout_check` | iptables, the spool; called by HTTP handlers and ndsctl |
| HTTP handling, `http_microhttpd.c` | a client pointer and locals per request | `libmicrohttpd_cb`, `add_client`, `preauthenticated`, `authenticated`, `authenticate_client`, `do_binauth` | the client list without its lock, `auth_client_auth`, `auth_client_deauth`, the binauth program |
| pages, `http_microhttpd.c` | what a browser was told | redirects, query, templates, files, errors | the browser, htdocs |
| ndsctl commands, `ndsctl_thread.c` | one command at a time | `ndsctl_auth`, `_deauth`, `_block` ... `_untrust`, `_debuglevel`, status output | `auth.c` |
| control socket, `ndsctl_thread.c` | epoll set, descriptor count, read buffer | `thread_ndsctl`, `ndsctl_handler` | the commands |
| escaping, `auth.c` | a buffer | `csv_escape_quoted`, `json_escape_quoted` | the spool and the CSV |
| spool, `auth.c` | `guest_spool.jsonl`, what of it is on disk | open, append, flush, fsync | read by the forwarder |
| forwarder, `guest_forwarder.py` | flock, config, `guest_delivered.txt`, locals of a run | `main`, `read_spool_rows`, `load_delivered`, `post_guest`, `mark_delivered` | cron, the CMS |
| `install.sh`, `apply.sh` | binary, htdocs, forwarder, config, crontab | back up, swap, gate, roll back, copy, schedule | systemd, cron |
| `fix_ap_24ghz.sh` | profile, live access point, `AP.sh` | modify, gate, roll back, persist | NetworkManager, the next boot |

`client_list.c`, `conf.c`, `fw_iptables.c` and `util.c` belong to upstream
nodogsplash and are not in this repository. They are modelled from how `auth.c`
and `http_microhttpd.c` use them and are marked external, as are the kernel, the
browser, systemd and the boot.

### What is hard

* **Three kinds of threads share the client list.** The list lock is held for
  parts of an operation only: a request finds its client without it, is
  dispatched on a state read without it, and writes the session times after it
  is given back. `ndsctl_deauth` looks an id up under one lock and uses it under
  the next.
* **Two mutexes nest.** Blocking a client on timeout takes the config lock while
  the list lock is held.
* **The firewall answers and nobody listens.** `auth_change_state` ignores what
  iptables says; the MAC list calls leave the list changed when iptables fails.
* **The control socket is edge-triggered, non-blocking and counted by hand.**
  A missed edge is a client that waits for ever, a read of nothing makes a
  signed counter negative, a wrong count makes `epoll_wait` fail, and lines and
  events come in numbers that their buffers may not hold.
* **A browser and the daemon answer each other.** Redirects, reloads and tokens
  may go in circles, and the address the guest wanted travels through all of it.
* **Guests type anything.** What is escaped must fit its buffer and mean the
  same to whoever reads the spool and the CSV.
* **The device loses power.** The spool survives it, in whatever state the last
  append left it.
* **Delivery crosses a network.** Refusals, lost answers, overlapping runs and
  unwritable mark files all lead to another POST or to none.
* **Scripts change a live device step by step** and may be killed at any of them,
  or find the disk full in a copy nobody checks.

What makes each component correct: list, firewall, MAC lists and rules agree
whenever nobody is in the middle of changing them; mutexes are always given
back; a signup opens the net once and has one row; sessions end and requests
finish; at shutdown nobody stays online. Commands are carried out as sent. The
form leads to where the guest wanted to go. A synced row stays readable and
means what was typed, a mark is never wrong, a guest is not delivered twice
without cause and arrives in the end. A script leaves the device working.

## 2. The modules

| Module | Stands for |
|---|---|
| `ClientAuth` | the shared state and the operations of `auth.c` |
| `HttpHandlers` | a request through `http_microhttpd.c` |
| `NdsctlCommands` | the commands of `ndsctl_thread.c` that act on clients |
| `Portal` | the three together: threads, interleaving, properties |
| `AccessPolicy` | what the daemon promises, without threads and locks |
| `ControlSocket` | the epoll loop and the reading of a command |
| `CaptivePages` | which answer a request gets and what a browser does with it |
| `FieldEscape` | the two escaping loops, and readers of their output |
| `GuestPipeline` | spool, forwarders, CMS, power loss |
| `DeliveryPromise` | what the pipeline promises, without files and processes |
| `Installer` | `install.sh` and `apply.sh`, command by command |
| `AccessPointFix` | `fix_ap_24ghz.sh`, command by command |
| `Rollout` | both on one device, with kills and reboots |
| `MCPortal`, `MCGuestPipeline`, `MCCaptivePages`, `MCControlSocket` | definitions for the instances TLC checks |
| `PortalProofs`, `GuestPipelineProofs`, `ControlSocketProofs`, `CaptivePagesProofs`, `FieldEscapeProofs`, `RolloutProofs` | the theorems |
| `NaturalsFacts` | lemmas of `ControlSocketProofs`, `CaptivePagesProofs` and `FieldEscapeProofs`: least numbers, induction over a set of numbers, functions given step by step |

`ClientAuth` declares all variables of the daemon; `HttpHandlers` and
`NdsctlCommands` extend it with the actions of their threads and `Portal`
extends both. `AccessPointFix` extends `Installer`, as both restart the portal,
and `Rollout` adds the operator. The others stand alone.

### ClientAuth, HttpHandlers, NdsctlCommands, Portal

*State.* A station has a record: its state (`mark`), `id`, `last_updated`
(`seen`), `session_end` (`end`) and whether the traffic limit is exceeded
(`over`). `fwAuth` is the set of stations iptables lets through; `macList` and
`fwMac` are a configured MAC list and the rules for it. Threads have a program
counter and locals; `listLock` and `cfgLock` name the owner of a mutex.

*Steps.* An action is what a thread does between two points where another one
may get in: a lock is taken or given back, a blocking call returns, or shared
state is read or written without the lock. A function that does its work under
one uninterrupted lock is one action (`DeauthById`). A signup is three:
`SignUp` takes the lock, opens the firewall and changes the state, `Spool`
writes the row and gives the lock back, and `SetSession` writes the times
without it. A round of the timeout thread reads the time (`TimerWake`), then
the counters, then takes the lock and visits the clients one by one. Blocking
is split further (`TimerBlock`, `ListOp`, `ListFw`, `TimerDelete`), because the
config lock is taken in the middle.

*Pointers.* A handler knows its client by `ptr`, the id of the record it
points to. When that record has been deleted the memory is free: `Denotes` lets
the handler find the old id or the id of any client added later, and
`MarksRead` lets it read any state at all. That such a read may crash the
daemon is not modelled; the model follows the runs where it does not.

*Refinement.* `KeepsPolicy` is `AccessPolicy!Spec` with `online` the stations
the firewall lets through, and a row owed while some thread is between opening
the firewall and writing the row.

*Abstracted.* Tokens (a request has the right one or gets a page; the tokens
themselves are in `CaptivePages`), the CSV indicator, what the binauth program
is told, traffic volumes. The order in which a loop visits the clients is left
open.

### ControlSocket

*State.* A connection is away, queued, open or closed; its peer has written so
much of its line (`sent`) and is up, shut for writing or down. `ready` is epoll's
ready list, `batch` the events the last `epoll_wait` returned, `count` is
`current_fd_count`, and `request`, `pos`, `done` are the variables of
`ndsctl_handler`. `size` is the length of a peer's line, `MaxBuf` that of
`request` (`MAX_BUF`) and `maxEvents` that of `events[]` (`MAX_EVENT_SIZE`).

*Steps.* `EpollWait` takes up to `count` ready descriptors; those nothing can be
read from yield no event. If there are more events than `events[]` has entries
it is overrun, and the model says no more of that daemon. One event is dealt
with per step: `TakeHup` closes and does not count down, `Accept` accepts one
connection, `Handle` enters `ndsctl_handler`, whose `read` calls are steps
(`ReadData`, `ReadNothing`) until `Dispatch`. `Reading` is the loop condition,
with `read_bytes` compared as an unsigned number: -1 ends the loop, and so does
a request that is full. A read gets no more than the request has room for
(`Chunk`); what it did not get is lost with the connection. A full request has
no terminator, so what is carried out may go on with what stands behind it
(`Texts`). Peers act between any two steps.

*Settings* are parts of the initial state: the lengths of the lines and of
`events[]`, and what goes wrong around the thread, which is connections that
overlap, peers that write in pieces or shut down early ("sloppy"), no free
descriptors.

*Abstracted.* What a command does (see `NdsctlCommands`), the words of a line,
`EINTR`, a failing `epoll_ctl`. When the peer shuts its writing side before a
newline, `read` returns 0 for ever and the handler spins; the model stops there.

### CaptivePages

*State.* The client's state and token, and for each window of the guest the
request it waits for, the page it shows and the address the guest wanted.

*Steps.* `Handle` answers one request, as `libmicrohttpd_cb` does from
`is_foreign_hosts` down to the last redirect; the helpers have the names of the
source. A request for a foreign address is captured if the client is behind the
portal when it is made. The guest visits sites, types in pages of the daemon,
reloads and submits the form of `splash.html`. `Upset` puts the client back or
makes it a new one with a new token.

*Abstracted.* A site is its query, a sequence of arguments that may be without
value, with an escaped separator, or too long. `Size` and `EncodedSize` count
bytes against `QUERYMAXLEN`. One request at a time: the interleavings are those
of `HttpHandlers`. Errors of libmicrohttpd, methods other than GET and addresses
that cannot be resolved lead to `send_error` and change nothing.

### FieldEscape

A behaviour is one run of one loop over one field into one buffer. `CsvBytes`
and `JsonBytes` are what a byte becomes, `CsvRoom` and `JsonRoom` the room the
loop asks for before it. `CsvReader` reads the row of
`registered_clients.csv` as RFC 4180 says, except that it skips the blank after
a comma, and `JsonReader` a JSON string; both are written from their formats and
not from the loops. Before `JsonReader` sees a byte, the string has to decode:
`Decodes` is what the text mode of `guest_forwarder.py:129` asks, that every
lead byte of a character has its tail and every tail its lead.

### GuestPipeline

*State.* The spool is a sequence of lines, good, torn (half a line without a
newline) or bad; `spool` is what processes see and `disk` what a power loss
leaves. `acked` are the rows whose fsync has returned. Each forwarder has its
place and the local variables of `main`; `marked` is `guest_delivered.txt`;
`accepted` counts what the CMS took per dedupe key. `slipped` is history: the
guests whose acceptance a fault kept off the record.

*Steps.* The writer's open, flush and fsync are three actions. A forwarder
gets the flock or exits at once (`Start`), reads config, spool and marks
(`Load`), then skips, posts or marks one row per step, and exits. `Crash` may
come between any two. `AppendLine` says what appending does to a file that ends
in half a line; `ReadSpool` says that a decoding error ends the reading of the
file, with lines of the same block lost.

*Refinement.* `KeepsPromise` is `DeliveryPromise!Spec` with `stored` the rows that
are a line of their own on the disk, which is read off the file and no history,
`confirmed` those whose fsync has returned and `delivered` the keys the CMS has.
An append that spoils a line, a power loss that drops a synced one, an fsync that
returns without the row or a file of marks that shrinks is a step the promise
does not have.

*Abstracted.* Field contents (a row is a value, `Key` gives its dedupe key);
the HTTP timeout (a POST that fails has been accepted or not). A torn or lost
key of `guest_delivered.txt` is covered by `FilesMayFail`.

### Installer, AccessPointFix, Rollout

*State.* A file is old, new or part of a copy; a forwarder that was cut may be
"short", which compiles all the same. `newWorks`, `newCompiles` and `bgWorks` say
whether the patched binary, the forwarder and the 2.4 GHz access point work on
this device, `full` that the disk is full, now and then, while the last script
runs. `mybak`, `myfwd` and `apbak` are the backups of the running script, `baks`
and `apbaks` all backups of the binary and of `AP.sh`. `profile` gives the bands
of the profile that is made from `AP.sh` and of a stale duplicate, `on` the one
that is active, `ref` the one the script works on (`CON_REF`), and `live` the band
the access point is on.

*Steps.* One action per command that changes the device. A copy onto the binary
or the forwarder takes two (`OpenBin`, `CopyBin`), as does the edit of `AP.sh`
through `cat >` (`InsertLine`, `FillAp`). Where the script looks at how a copy
ended it goes on accordingly; where it does not (`install.sh:104`, 150-151, 161,
164, `fix_ap_24ghz.sh:146`, 176, 181-186) the copy may be cut and the script goes
on. One such copy is taken to succeed, the one of the backup onto the binary
(`Restore`, `install.sh:129` and 139): it goes where a file of its size was before
the failed copy. A healthy portal may come up too late for the gate
(`SlowDevice`). `Activate` is `nmcli con down` and `up`: where the profile does
not come up NetworkManager may take the duplicate. `Kill` ends a script at any
command; `Boot` also starts the portal, makes the profile from `AP.sh`, as
`start_router.py` does, and brings up that profile or its duplicate.

*Abstracted.* Steps 0 to 4 of `install.sh` fail or do not. The backup of the
pages and the sync of the source (step 9) are read by nothing that runs. The
build is the files it leaves. Band and channel of a profile are one value.

## 3. The runs

| Run | Checks | Question |
|---|---|---|
| `PortalSafety` | `TypeOK` `FirewallMatchesList` `ListsMatchFirewall` `ShutdownClosesAll` `KeepsPolicy` | Do list, firewall, MAC lists and spool agree under every interleaving, and is the policy kept? |
| `PortalFailures` | `LocksHeld` `OneRowPerSignup` `HandlerClientOnList` | Does any error path keep a mutex or repeat a row? Does a handler keep its client if idle clients are never evicted? |
| `PortalLiveness` | `SignupOpensNet` `RequestsFinish` `SessionsEnd` | Is every request answered although blocking nests the locks? Does every session end? |
| `ControlSocket` | `TypeOK` `CountCoversOpen` `ExitsOnlyWhenTold` `ExecutedAsSent` `EdgesKept` `LinesCarriedOut` `HangupsReleased` | Do hangups, batches, partial reads and long lines lose an event, a connection, a command or the thread? |
| `CaptivePages` | `TypeOK` `OriginKept` `AnswersEnd` `FormLeadsOn` | Does a guest get past the form, and to the right address, through redirects and old tokens? |
| `FieldEscape` | `TypeOK` `NeverOverruns` `CsvReadBack` `JsonReadBack` `KeptWhole` | Does any field break its buffer, its row or, other than by bytes that do not decode, its line? |
| `GuestDurable` | `TypeOK` `MarkedWasAccepted` `AckedRowsReadable` `NoDoubleDelivery` `KeepsPromise` | What do power losses, file errors, config changes and overlapping runs do to rows, marks and guests? Is the promise kept? |
| `GuestArrival` | `GuestsArrive` | Does a good row get past refused ones, lines a full disk or a power loss cut, lost answers and a reboot? |
| `Rollout` | `TypeOK` `EndsWithPortal` `InstallCompletes` `OriginalKept` `DeliveryKept` `BootComesUp` `BootKeepsFix` | What do failures, a full disk, kills and reboots leave of a device? |
| `PortalStaleClient`, `GuestTornLine`, `GuestUndecodable` | one property each | the findings, section 6 |

### Bounds

* **Stations.** Two in `PortalSafety`; they interact through locks, loops and
  ids only, and two are enough for a loop to visit one while another waits.
  One elsewhere: the races are between threads over one client.
* **Ids.** `MaxId = 2`: a client deleted and added again, which is what a stale
  id can be confused with. With two stations, both are on the list.
* **Handlers.** One in `PortalSafety`, beside the control, timeout and shutdown
  threads; two in `PortalFailures`, for the doubled signup. How many threads
  run `libmicrohttpd_cb` is decided where the web server is started, which is
  not in this repository, so `Workers` is a parameter.
* **Time.** `MaxTime = 1`, timeouts of 0 (never) or 1: a timeout is reached or
  not. A timeout counts from any moment and the timer reads the time early, so
  the orders of reading, signing up and expiring all occur.
* **Signups.** Two, over `MaxSignups` for the form and `MaxCtlSignups` for
  ndsctl. One station signs up, is put back and signs up again. The bounds stop
  requests, never a handler.
* **Lists.** One MAC list, "blocked", which two threads change; the other two
  run through the same actions with the control thread only.
* **Control socket.** Two peers, one of which sends "stop", and a buffer of three
  bytes. The other's line is a word, an argument and a newline, which fills the
  buffer, or longer by one (only the newline does not fit) or by two. Two
  connections share a batch, one hangs up while the other is read, and the second
  waits behind the first. `events[]` has two entries, or one for the overrun.
* **Pages.** Two windows; three sites: one whose query changes when it is
  decoded, one too long to collect, one too long to encode; one page typed in,
  one session end or forgotten client per behaviour (`MaxUpsets`).
* **Fields.** Three bytes out of eleven kinds, in buffers of six sizes: all
  pairs of a byte and what follows it, whole and cut at every place. The loops
  look at one byte at a time.
* **Pipeline.** Three rows, two forwarders, one power loss, a cap of one or two
  rows: enough for a row behind another, a cap in the way, a run that overlaps,
  two rows of one guest and an append after a crash or a full disk.
* **Rollout.** Two script runs (`MaxRuns`) and two kills or reboots (`MaxCuts`): a
  run is cut and the next one finds what it left, or a device is installed and
  then fixed, is fixed twice, or boots after either.

`PortalSafety` and `PortalFailures` treat stations and handlers as symmetric.
They check invariants and a refinement without fairness, and nothing singles a
station or a handler out. Deadlock is checked except in `ControlSocket`, whose
thread ends on "stop" and whose peers connect once, `FieldEscape`, whose loops
end, and `Rollout`, whose operator starts no more than `MaxRuns` scripts.

### Fairness

`Portal!Fairness` has strong fairness for the step of each thread that serves
something, because a mutex that is given back again and again is not handed to
the same loser for ever, and strong fairness of `CountersOk`: iptables answers
at last. `MainStep` is fair once the shutdown has begun. Nobody has to send a
request or a command, nor to start the shutdown. `GuestPipeline!Fairness`
says that the writer and the forwarders run on, that cron starts one again
after each has ended, and that a row posted again and again is accepted at last
unless the CMS refuses it for good. `ControlSocket!Spec` has weak fairness of the
thread alone: peers may stop at any point. `CaptivePages!Spec` says that requests
are answered, that a guest who sees the form again and again submits it, and
that a binauth program asked again and again lets the guest in.

## 4. The proofs

The theorems hold for any number of stations, handlers, rows, keys, forwarders,
peers, windows, sites, kills and reboots, any fields and buffers, any timeouts and
any caps within the named assumptions on the constants (`ClientAuthAssumption`,
`HttpHandlersAssumption`, `NdsctlAssumption`, `PipelineAssumption`,
`ControlAssumption`, `PagesAssumption`, `EscapeAssumption`,
`InstallerAssumption`, `RolloutAssumption`), which TLC evaluates in the runs.
Every safety property of a passing run is a theorem.

**Portal.** `TypeCorrect` is an induction over `TypeOK` with one addition: a
thread in a MAC list call, or deleting a client, has that client in its locals.
`LockDiscipline` proves that a mutex's owner and the program counters determine
each other. It is the ground for the rest: a thread in a list section is the
only one there, so what it read still holds. `FirewallFollowsList` needs that
the client being blocked is authenticated and stays so until it is deleted,
although the firewall is closed to it and other threads run meanwhile; they
cannot touch it, by `LockDiscipline`. `ShutdownDeauthsAll` adds that every
authenticated client is still among those the shutdown loop has to visit.
`RulesFollowLists` follows the one change under the config lock.
`SignupsSpooledOnce` counts rows and threads about to write one; there is at
most one such thread, as it holds the list lock. `SignupsOpenNet` is an action
property that follows from `FirewallFollowsList`. `PolicyKept` is the
refinement: each step is mapped to a step of `AccessPolicy` or to a stutter, by
`LockDiscipline` (no other thread is in its section while a row is owed) and the
firewall invariant. `OnlyTimerFrees` bounds the finding of `PortalStaleClient`: for
each handler and any timeouts, the client behind its pointer leaves the list only
by a deletion of the timeout thread, which holds the list lock. It looks at every
other step, those of handlers whose own pointers have gone stale included.

The theorems about the firewall, `PolicyKept` among them, assume that iptables
does not fail (`FwMayFail = FALSE`). Without it they are false, by section 1: the
code goes on whatever iptables answers.

**GuestPipeline.** `PipelineTypes` rests on lemmas about sequences of lines.
`MarksAreAccepted` adds that a run about to mark a row has seen it accepted; it
needs no assumption, so no crash, lost answer or file error makes a mark wrong.
`RowsDurable` assumes that no write is cut short (`Cuts = {}`). Its invariant
says that neither file has a torn line, so that appending adds a line and keeps
the others, and that what processes see is at most the row about to be synced
ahead of the disk. `DeliveredOnce`
needs no assumption: its invariant says that the flock belongs to the one
forwarder that runs, that it knows every mark, and that what was accepted is
marked, about to be, or in `slipped`. `PromiseKept` is the refinement, where no
write is cut short; besides the invariant of `RowsDurable` it needs that every line
and every row in a forwarder's hands is that of a guest who signed up.

**ControlSocket.** The invariant `SocketInv` says that backlog, ready list and
batch name connections in the states they must be in, each at most once, that
the connection being handled is open, and that the count has room for all. A
count that covers the open connections is never 0, so `epoll_wait` does not
fail and the thread only ends when told to or for want of a descriptor. It grows
with every connection that hangs up, so it does not bound the events of a batch;
the descriptors do, and `events[]` is overrun only when as many connections are
open as it has entries.

`ReadInv` adds the reading, for `SocketTypes` and `LinesWhole`. Nothing of a
connection's line is read before its handler runs, and `read_bytes` is never
ahead of what was read, and a read takes no more than the request has room for. A
handler that found the whole line has read none of it, or all, and then its
request up to the first zero is the line, or as much as the request holds, and
then it is full and has no zero. For peers that write in one go the line is there
whenever an event says that something is. `NoEdgeLost` rests on both and on the
batch being used up before the next `epoll_wait`: every step that takes a
descriptor off the ready list puts its event into the batch, and every step that
takes an event out of the batch closes the connection, hands it to the handler
or accepts, where the bound of one waiting connection (without overlap) leaves
nobody behind.

**CaptivePages.** A query is collected by a function over its arguments;
lemmas say that it stays within `QUERYMAXLEN` and holds decoded arguments only.
The invariant says that every address a window asks for, and every page it
shows, leads where the window is to be led: a site once its query is collected,
an address of the gateway by its `redir`. It has one lemma per answer of the
daemon, each of which turns one such address into a page or into another such
address. `OriginKept` alone is not inductive: a reload asks for the address of
the page, not for that of its form, and the address of a denial has no `redir`
at all.

**FieldEscape.** `EscapesFit` needs that before each round the buffer has room
for the closing quote and the terminator, and that one byte becomes at most two
or six. For `RowReadsBack` and `StringReadsBack` the invariant (`Reads`) runs
the reader along: after each round of the loop it is inside the quotes with
exactly the front of the field as its text. One round feeds it one escape, so
each escape has a lemma that says what the reader makes of it, and the closing
quote ends the field. `StringReadsBack` also needs `Decodes` of what was written
to be that of the front of the field: escapes are single bytes, and where two of
them meet a lead byte stays before its tail or before something else. A cut
field is covered by the same argument, since a round copies a whole escape or
nothing. `FittingFieldsWhole` adds up the escapes: the buffer is as full as the
front of the field takes, and that only grows with the front. The readers and
`Escaped` are recursive functions; what they are at every argument is proved by
induction over sets of numbers (`SetInduction`), which needs no operator as a
parameter.

**Rollout.** Two invariants, for the portal and its files and for the access
point, say what each command of a script may rely on: the portal is stopped from
`systemctl stop` to `start`, the backup of a run that found the portal up works,
the original is in a backup once there is one, a forwarder that cron starts
compiles outside the excepted times, no `AP.sh` and no backup of it names 2.4
GHz unless the adapter has come up on it, and both are whole unless a copy was
cut. A lemma says what each group of scripts leaves alone, so each invariant is
proved over the commands of its own script. `FixLeavesBootable` and
`FixSurvivesBoot` are about the step `Boot` and follow from the second one.

**Only model-checked.** The liveness properties (`RequestsFinish`, `SessionsEnd`,
`GuestsArrive`, `LinesCarriedOut`, `HangupsReleased`, `AnswersEnd`,
`FormLeadsOn`) are out of the prover's reach, and so are `ENABLED` and with it
the absence of deadlock.

## 5. What is not modelled, and why

* `debuglevel` sets one integer that only logging reads; `status`, `clients` and
  `json` print the list.
* MIME types, template variables other than `tok` and `redir`, page texts,
  logging and help output change no state.
* The loop that reads a page (`http_microhttpd.c:945`) and pages that change
  under it.
* The CSV indicator is written best effort, wiped at boot and read by nothing
  here; only the layout of its row is modelled.
* `client_list.c`, `conf.c`, `fw_iptables.c`, `util.c`, `start_router.py` and
  `capture_webpages.py` are not in the repository.

## 6. Findings

1. **A handler goes on with a freed client** (`http_microhttpd.c:346`, run
   `PortalStaleClient`). A lookup without the lock, and a timeout thread that
   deletes idle clients.
2. **Half a line spoils the next row** (`auth.c:389`, run `GuestTornLine`). A
   power loss during an append leaves a line without its end, and the next row
   is appended to it. Both are lost, the second after its fsync has returned.
3. **One undecodable row stops delivery** (`guest_forwarder.py:129`, run
   `GuestUndecodable`). A decoding error ends the reading of the file in every
   run, so the rows behind it never arrive. `json_escape_quoted` makes such rows
   when it cuts a multi-byte character.

What the models show besides, without a run of its own:

* **A session end on a client that is not authenticated**
  (`http_microhttpd.c:471`). The session times are written after the lock is
  given back; a deauthentication in between leaves them on a preauthenticated
  client, which `auth.c:169` says cannot be. Such a client is never evicted as
  idle: the timeout thread takes the branch for ended sessions, where the change
  of state is refused.
* **The cap is on deliveries, not on work** (`guest_forwarder.py:203`, against
  lines 43-45). Against a CMS that is down a run posts the whole spool, 10 s
  each, with the flock held.
* **"Exactly-once delivery"** (`guest_forwarder.py:12`) is at least once for a
  guest whose answer, mark or power was lost: `NoDoubleDelivery` says exactly
  whom.
* **A failing iptables call** leaves list and firewall apart, with no retry.
* **Two connections that come together** (`ndsctl_thread.c:181`): one is
  accepted, and the other waits until a third one connects, which is why
  `LinesCarriedOut` and `EdgesKept` speak of the queued ones only without overlap.
* **Part of a command is carried out** (`ndsctl_thread.c:283`): "Invalid ndsctl
  request" is logged after the command was dispatched. `ExecutedAsSent` says
  that peers that write in pieces meet this, and lines that do not fit.
* **A line longer than the request** (`ndsctl_thread.c:237-238`) is cut at its end
  and carried out. `read` may fill the last byte too, which the loop condition
  keeps for the terminator, and the string then has none.
* **`current_fd_count` only grows with hangups** (`ndsctl_thread.c:172-177`) and is
  passed to `epoll_wait` in place of `MAX_EVENT_SIZE`, so 30 connections open at a
  time, with their events, may overrun `events[]` (`ndsctl_thread.c:141`).
* **A daemon out of descriptors** loses its control socket for good
  (`ndsctl_thread.c:183`).
* **A peer that writes and leaves at once** may have its command dropped unread
  (`ndsctl_thread.c:168`): `EPOLLHUP` is looked at before `EPOLLIN`.
* **The CSV separator is ", "** (`auth.c:360`). A reader that keeps to RFC 4180
  takes a quote after that blank for text, not for the start of a quoted field,
  so a comma in a name shifts columns after all; `CsvReadBack` holds for a
  reader that skips the blank.
* **"Never overruns dst"** (`auth.c:269`) holds from three bytes on. No caller
  has fewer.
* **A guest who reloads a page when signed up** gets the status page or the
  splash template with its variables unreplaced, not the "redirect to origin" of
  `http_microhttpd.c:494-495`.
* **`is_foreign_hosts`** compares with the name of the gateway only; its comment
  (line 158) names the address, too.
* **The query of the origin** is put together from decoded arguments
  (`http_microhttpd.c:140`), so an escaped `&` becomes a separator.
  `OriginKept` says "its arguments decoded".
* **A kill in the wrong place.** Between `cat` and its end `AP.sh` is cut and the
  next boot has no access point (`fix_ap_24ghz.sh:176`); the same holds for the
  binary during its copy. The script run again repairs the second, not the
  first.
* **Copies nobody checks.** On a full disk `install.sh` may report success with
  pages that are cut (lines 150-151) or a cut forwarder that still compiles (161),
  and "restored previous copy" (165) is not so if the backup (104) or the copy
  back (164) was cut, or there was none. `InstallCompletes` and `DeliveryKept` say
  so.
* **A fix that is never completed.** If `fix_ap_24ghz.sh` stops between the live
  change and its end, also by itself at lines 169 and 175, the profile is changed
  and `AP.sh` is not. The script run again says "Already on 2.4 GHz" (line 66) and
  leaves it so; the next boot reverts the access point.
* **"Device left on its original settings"** (`fix_ap_24ghz.sh:149`). The rollback
  does not put the regulatory domain back, and none of its commands is checked.
* **A stale duplicate profile** may win at boot after a fix that reported success,
  as `fix_ap_24ghz.sh:53` warns; `BootKeepsFix` excepts it.

## 7. Plan

Done: the daemon and its policy, the pipeline and its promise, the control
socket, the pages, the escaping and the scripts, with the proofs above.

To add: `HttpHandlers` and `CaptivePages` composed, so that two windows of one
guest interleave inside a request.
