# hslock in TLA+

hslock is the firmware of a door lock: a Raspberry Pi Pico W with a keypad, an electric strike, a serial console
and an NTP-set clock. A person types a key id and a TOTP code; the door opens if the key is enabled and the code is
current. This directory holds TLA+ models of the parts of the firmware in which order, failure and concurrency
matter, the TLC configurations that check them on small instances, and TLAPS proofs of the most important
invariants for every value of the constants. Paths below are relative to the source tree; `file.c:n` is a line.

## 1. The system

Two cores share RAM and flash. **Core 1** (`core1.c`) runs the keypad, judges nothing, and drives the latch. **Core 0**
(`main.c`) runs everything else in one loop: the keypad mailbox, the console, WiFi, NTP. The network stack
(`pico_cyw43_arch_lwip_threadsafe_background`, `CMakeLists.txt:121`) runs its callbacks in an interrupt on core 0.

| component | state it keeps | operations | interacts with | what is hard |
|---|---|---|---|---|
| Verification handshake (`core1.c`, `main.c`, `shared/door_verify.h`) | mailbox of five volatile fields, `next_seq`, `last_handled_seq` | submit, poll, time out; read, judge, answer | both cores through shared words, no lock | every interleaving; late answers; resets |
| Latch (`hardware/latch.c`) | one pin | `latch_open` on either core | keypad grant, `test` | two drivers of one pin |
| Keypad entry (`core1.c`, `hardware/keypad.c`) | `input_buf`, `last_raw`, `last_stable`, `stable_at` | scan, debounce, digit, `*`, `#` | handshake, buzzer | bouncing contacts scanned at irregular times; abandoned digits |
| Key storage (`storage/storage.c`) | one littlefs file per key, `/wifi`, `mounted` | get, exists, save, delete, list, format; the WiFi credentials | flash | power cuts between commits, ignored errors |
| Key commands (`serial/commands_keys.c`) | none | add, rename, enable, disable, delete, (un)set admin | storage | read-modify-write of damaged records |
| Backup (`storage/backup.c`) | none | export, import (delete all, write all) | storage | import is many commits |
| Import prompt, Base64 (`serial/commands_backup.c`, `libs/base64`) | line and paste buffers | CONFIRM, paste, timeout, checks, decode | console, mailbox pump | buffer limits, over-long input, second spellings |
| Console, dispatch, session (`serial/console.c`, `commands.c`, `commands_system.c`) | line, `admin_mode`, `admin_deadline_us`, `was_connected` | dispatch, login, logout, expiry, disconnect | every command handler, which blocks core 0 | the world changes while a handler runs |
| NTP rules (`network/ntp.c`, `ntp.h`) | last sync (two clocks), rollback budget | accept or drop a timestamp | RTC, monotonic timer | unsigned arithmetic, accumulation over syncs |
| NTP sync (`network/ntp.c`) | `ntp_state`, `ntp_pcb`, `ntp_nonce`, `synced` | `ntp_sync`, DNS and UDP callbacks, `ntp_task`, boot loop | lwIP interrupts, WiFi | callbacks of calls long over |
| WiFi (`network/wifi.c`, `commands_network.c`) | `next_check` | `wifi_task`, `set-wifi`, `sync-ntp` | NTP sync | reconnects |
| Watchdog, flash lockout, buzzer (`main.c`, `core1.c`, `storage.c`, `buzzer.c`) | 8 s countdown fed by core 1 | feed, reboot, stop core 1 during flash writes | every sleep of both cores | durations that no line relates |
| RTC, TOTP, Base32, QR code, LEDs, random | little or none | pure functions or output | | arithmetic only |

What makes each correct, in one line:

* handshake - the door opens only for an attempt that was itself judged, and no one waits forever;
* keypad entry - what is submitted is what was typed, each press once;
* timing - the watchdog never fires while the lock works, the strike gets one bounded pulse, core 0 comes back in time;
* storage and commands - a key command is all-or-nothing, on its own id, whatever fails, and its reply is true;
* backup - an export is complete and can be pasted back, a completed import is exactly the backup and leaves someone
  able to log in; no input overruns a buffer;
* session - admin commands run only inside a live session;
* NTP rules - what a series of accepted replies can do to the clock is bounded: backwards by the budget of the header
  and, since elapsed time is truncated, up to a second per sync; forwards by one cap each;
* NTP sync - it returns the truth, leaves no socket behind, returns at all, and is tried again when it failed.

`PROJECT.json` lists the components, the hazards at the line where they bite, and maps each definition to the lines
it models.

## 2. The modules

| module | models | refines | proofs |
|---|---|---|---|
| `DoorVerify` | the handshake, the latch | `DoorAccess` | `DoorVerifyProofs` |
| `KeypadEntry` | contacts, debouncer, digit buffer, up to the request | | `KeypadEntryProofs` |
| `LockTiming` | sleeps and waits of both cores, watchdog, flash lockout, format prompt | | `LockTimingProofs` |
| `KeyStore` | storage, key commands, backup, `set-wifi` | `KeyMap` | `KeyStoreProofs` |
| `NtpClock` | which timestamps are accepted | | `NtpClockProofs` |
| `NtpSync` | boot, main loop, WiFi, `ntp_sync`, callbacks | | `NtpSyncProofs` |
| `Base64`, `ImportPrompt` | the codec; the prompts of import-keys and the decoding loop | | `ImportPromptProofs` |
| `AdminSession` | dispatch, login, session, console edges | | `AdminSessionProofs` |

`DoorAccess` and `KeyMap` say what the handshake and the database promise, without cores, mailbox, files or power
cuts. `MC*` modules give the constants that a `.cfg` cannot spell and say which instance it is. An operator whose
comment begins with "Mutant" or "A mutant" is the definition below it with a plausible bug; it shows that a property
can fail, and is not part of any specification.

**DoorVerify.** Each load and each store of a mailbox field is a step; `pc1` and `pc0` say where the cores are. The
`__dmb()` barriers order the accesses of each core, so program order is the order of steps; a step of the other core
may fall between any two. Key files and the set of accepted entries change under core 0's feet (`EditKeys`,
`ClockMoves`) except while it is between its own statements about the same file: `storage_key_get` is one step because
only core 0 touches flash. `DutiesDone` stands both for the rest of the main loop and for the pumps of the mailbox inside
blocking commands. `Reset` (watchdog, `reboot`, power) may come at any step. `KeypadEntry` ends where `Submit` begins,
`LockTiming` has the same handshake with durations in place of nonces.

**KeypadEntry.** A key that goes down or up may be read either way for `Bounce` ticks, and a scan may see any contact
that no steady one precedes in `KEY_MAP`. Core 1 takes a turn whenever it gets to: any time passes between two scans,
because it beeps, waits for a verdict or is stopped by a flash write in between. `due` and `typed` are history: which
keys a press, or the release of a key before them, entitles to a report, and what was reported since the last `*` or
`#`.

**LockTiming.** `job` and `nap` say in which sleep core 1 is, `duty` what core 0 does; `left` and `left0` the time that
is left of it. `Plan` has the melodies of `buzzer.c` as times left after each sleep. A tick may pass only when each
core sleeps, is stopped, works at a duty, or has been round its loop in this tick. The wait for a verdict has the two
looks of the code: at `response_seq` (`PollResponse`, `core1.c:82`), then at the deadline (`PollAgain`, `GiveUp`,
`core1.c:95`); whatever core 0 does between them is not seen. Core 0 loads the request (`Look`, `main.c:58`) and stores
its answer up to `Judge` later (`Answer`, `main.c:84`): key lookup, TOTP and output take milliseconds in which core 1
may give up. `asked`, `judging`, `answer` say where the request is; the nonces are in `DoorVerify`. `FlashWrite` may stop
core 1 anywhere while core 0 writes, asleep or between two of its steps, for up to `Pause`. After a stop it executes
before the next (`held`): the few instructions that are due take microseconds, and littlefs works for longer than that
between two flash operations. `sinceLook`, `sinceAnswer` and `high` are history. What the library calls and the output
take (connect, sync, the writes of a command, an export on the UART) is a constant and an upper limit.

**KeyStore.** A command that passed its checks becomes the list of deletes and saves it has to do; then each flash
commit is a step (`Zero`, `Remove`, `Create`, `Commit`) that can succeed, fail, or be the last before a `Crash`.
`files` and `wifi` are what survives. littlefs is external: commits are atomic, a created file is empty until its data is
committed, and `O_TRUNC` on an existing file takes effect with the data. Three constants switch faults on.
`IgnoredCloses`: an `lfs_file_close` that fails, whose result nobody looks at. `IgnoredDeletes`: an import that finds some
or all of the old keys unlisted, because the listing failed or was cut short, or that cannot delete one; it goes on in
each case. Both are `FALSE` in the runs, because with either at `TRUE` `ReplyIsTrue` fails (section 4). `CorruptTouched`:
updates of records that `list-keys` shows as corrupt; `TRUE` in `key_corrupt`. Records decay (`Corrupt`) in every run, the
id inside them included.

**NtpClock.** Time is in ticks of a fraction of a second so that the truncation to seconds of `rollback_check` is
visible. Any timestamp may arrive at any time. `firstUnix`, `firstMono` and `syncs` are history. The assumption that
no sane time plus the uptime reaches 2^32 holds until 2106.

**NtpSync.** One statement of the main loop or of `ntp_sync` per step; `DnsFound`, `DnsFails`, `ReceiveGood`,
`ReceiveEarly` are interrupts and may come between any two of them. A DNS query cannot be cancelled, so its callback
may come when the call that asked is over: with no pcb, or with that of a later call. `udp_remove` drops what is in
flight to the old pcb.

**ImportPrompt.** While the paste arrives only lengths are kept; what the characters are is chosen when
`base64_decode` looks at them, four at a time, out of `Quads`. `sent`, `typing`, `whole` are history, what the operator
sent; `quad` and `plain` are the last group the decoder took and its bytes. `Base64` has both directions of the codec on
one group, on real bytes and the 64 real symbols.

**AdminSession.** Handlers take time: `Dispatch` starts one, a `...Done` action ends it, and time, the cable and the
clock move in between. `opened`, `active`, `started` are history. `Builds` holds both forms of
`console_task`; the one `CMakeLists.txt` builds is `TRUE`.

## 3. What the runs check

| run | states | shows |
|---|---|---|
| `door_verify` | 95 000 | `HandshakeInv`, `LatchOnlyWhileHeld`, `VerdictStableUnderReader`, `SingleShot`, `ImplementsDoorAccess`; liveness: `AttemptEnds`, `RequestServed` |
| `keypad_entry` | 206 000 | `BufferIsTyped`, `ReportedOnce`, `EntryIsTyped`; liveness: `HeldKeyReported` |
| `lock_timing` | 3 863 000 | `TimingInv`, `FedInTime`, `PulseBounded`, `AwayBounded`, `TimeoutMeansLate` |
| `key_store` | 480 000 | `StoreInv`, `ReplyIsTrue`, `ImportLeavesAdmin`, `ExportComplete`, `UpdateKeepsSecrets`, `ImplementsKeyMap`, `StaysConfigured` |
| `ntp_clock` | 287 000 | `BudgetNeverOverrun`, `WalkBackBounded`, `WalkAheadBounded`, `RollbackUnderOneStep` |
| `ntp_sync` | 17 000 | `TrueMeansSet`, `ClosedOutside`; liveness: `LoopGoesOn`, `Resyncs` |
| `import_prompt` | 99 300 | `BuffersHold`, `DecodesCompleteLines`, `DecodesTheEncoded` |
| `admin_session` | 49 300 | `HonouredIsFresh`, `ClosedWhenDetached` |

Each property is stated in words above its definition. Every type invariant is proved as part of the inductive
invariants; `StoreInv`, `HandshakeInv`, `TimingInv` and `BufferIsTyped` contain theirs.

### Bounds, and why they are enough

* `door_verify`: three attempts, so that one can be late for another and the counter of core 0 can be two behind; two
  ids and two codes, with clock states in which a torn copy would be accepted; every key status. The nonce width
  (8 for 2^32) only has to exceed the attempts: an attempt takes over a second of key presses and beeps, so a real
  one wraps after more than a century of uptime. Proved for every bound.
* `keypad_entry`: two digits, `*` and `#`; two fingers; contacts that bounce exactly as long as the debouncer waits, the
  tightest case; codes of one digit and ids of one or two, so that there are entries too short, of each length, and
  digits beyond the buffer. The three safety properties are proved for every bound, any number of fingers included.
* `lock_timing`: durations in the order of the real ones but closer together: a grant and a doorbell, with a flash
  operation at the end of each sleep, take all but the last of the 33 ticks of the watchdog (of the 8 s of the real one
  a grant takes 5.8), and `MaxAway` is exactly the longest turn. One tick less of either and `WatchdogAssumption` or
  `AwayAssumption` fails. A flash operation, the judging of a request and the output of a command take one tick each.
  All five properties are proved for any durations under these two assumptions. With the numbers of the code
  `WatchdogAssumption` asks that a flash operation stop core 1 for less than about 220 ms: a sector erase typically
  takes well below that, but the datasheet of the flash allows 400 ms, and nothing in the code rules it out.
  `format_reboot` has shorter durations of its own: there it matters only that the reboot delay is longer than a turn
  of core 1.
* `key_store`: two ids and one out of range, two names, two secrets, two networks, one zero record; backups for every gate of
  `backup_import`, one that names an id twice, and whatever the database itself exports. A command touches at most
  one id besides an import, which touches all: two are enough for one to be overwritten by mistake. Proved for
  any number of ids, all names and secrets and all backups.
* `ntp_clock`: all constants scaled down in the same order (epsilon < TOTP step, budget > epsilon), four syncs, seven
  seconds. Enough for the budget to be used up in several parts. All four properties are proved for all values.
* `ntp_sync`: one query may outlive its call. A call needs one late callback to be confused; the two
  safety properties are proved for any number.
* `import_prompt`: lengths divided by four, three keys, so that, as in the code, the largest backup is not a multiple
  of three bytes, several keys do not fit one line and the line buffer holds no whole number of groups; up to 60
  characters. The groups pass each test of the decoder and fail each. The command ends, so deadlock is not checked.
* `admin_session`: an idle timeout of two units, a bypass window of one, six units: a login, a refresh, an expiry and
  another login. Proved for all values.

### Fairness

* `DoorVerify`: weak fairness of each core's own steps and of the two second deadline. Both cores are processors that
  execute; nothing is assumed of the person, of the boot (`boot_network` may never end), of resets or of the clock.
  `EditKeys` and `TestLatchOn` are not fair, what ends a `test` is.
* `KeypadEntry`: weak fairness of core 1's turn and of time. Nothing is assumed of the fingers.
* `LockTiming`: weak fairness of both cores, of time and of the reset. Only `FormatReboots` needs it, and fails with it.
* `NtpSync`, `Running`: core 0 executes and its timers expire. `TimedOut` gets strong fairness because it is enabled
  only at one point of the poll loop but the deadline, once passed, stays passed: some turn of the loop finds it.
* `NtpSync`, `NetworkAnswers`: a network that is asked again and again succeeds again and again: WiFi connects, DNS
  answers while the call is still waiting, the server answers the last request and the answer arrives. Only
  `Resyncs` and `ReconnectSyncs` need this; `LoopGoesOn` does not. `ntp_sync` at boot is excluded from `LoopGoesOn`
  because it retries forever by design (`main.c:44`).

## 4. Where the code and its documentation part

Each is a run that TLC ends with a counterexample.

| run | property | what happens |
|---|---|---|
| `key_corrupt` | `UpdateKeepsSecrets` | `rename-key`, `enable-key` etc. do not check the checksum and save under the id in the record. A `delete-key 1` cut by a power loss leaves a zero record; `rename-key 1` then overwrites key 0. `docs/COMMANDS.md:42` promises not to touch the secret. |
| `ntp_reconnect` | `ReconnectSyncs` | No WiFi at boot, WiFi later: `ntp_task` never does the first sync (`ntp.c:290`), contrary to `wifi.c:75`. |
| `export_refused` | `ExportsComeBack` | `export-keys` prints one line, from four keys on longer than the 255 characters `import-keys` keeps of a line; the rest is dropped without a word (`commands_backup.c:111` against `:100`). In shorter lines, the export of all 128 keys is counted one byte too long by its padding and refused (`:136` against `:133`). `docs/COMMANDS.md:54` says "Paste data and send an empty line to commit". |
| `format_reboot` | `FormatReboots` | "done - rebooting" (`commands_system.c:284`) arms a watchdog of 500 ms that core 1 goes on feeding (`core1.c:156`). Core 0 spins; the keypad gets no answers until someone keeps core 1 busy for half a second or pulls the plug. |

Not a run, but noted while reading:

* `storage.c:337` ignores the result of `lfs_file_close`, which is the commit of a small file: "key added" may be false.
  With `IgnoredCloses = TRUE` in `key_store.cfg` TLC finds `ReplyIsTrue` violated.
* `backup.c:196-197` ignores a listing that failed (-1) or was cut short, and `:198` a delete that failed: an import then
  answers "done" with old keys still there. With `IgnoredDeletes = TRUE` TLC finds `ReplyIsTrue` violated. (In the same
  way a listing cut short by a read error makes an export silently incomplete; read errors are not modelled.)
* `backup.c:171-178` says that the gate keeps an import from leaving the lock without an admin. It counts records, not
  ids: a blob in which a later record has the id of the only enabled admin record passes at `:180` and leaves none, and
  login is then open to anybody. `ImportLeavesAdmin` states what the gate does ensure, with that case as its only
  exception; one of the backups of `key_store` is of this kind. Without the exception TLC finds it violated.
* `docs/COMMANDS.md:60` ends the admin session on USB disconnect. With UART stdio built in, as `CMakeLists.txt:132-133`
  does, `console.c:54` takes the console as always connected and never sees the edge.
* `ntp.h:11` says a rollback within the epsilon can never move the current OTP window; it can move it back by one
  (`RollbackUnderOneStep` states what holds).
* `storage.h:44` says `storage_init` formats and retries; it does not, and core 1 is running by then.
* `docs/COMMANDS.md:59` gives key ids as 0-128, the message at `commands_keys.c:170` as 0-255; the code takes 0-127, and
  cuts to 16 bits first, so that 65536 and a word that is no number are key 0. `docs/COMMANDS.md:61` leaves out that
  login is open when the RTC is unset after five minutes.
* `door_verify.h:39-41` says that the confirm prompts pump the mailbox. That of `format-storage` does, that of
  `import-keys` does not. Between two looks core 0 may connect, sync and beep: in the worst turn (`MaxAway`) a
  keypad request waits many times the two seconds that core 1 grants it, and after a resync that failed every turn is
  of this kind. Even in time an answer may be lost: one that is stored after core 1 looked at `response_seq` (`core1.c:82`)
  and before it looks at the deadline (`:95`), or that core 0 is still working out, ends in the fail melody of someone
  whose code was right. `TimeoutMeansLate` says that this happens in no other way.
* `ntp.h:16-21` gives the budget as the most that the clock may be taken back in one boot; the truncation of the elapsed
  time at `ntp.c:58` adds up to a second per sync, which is the second term of `WalkBackBounded`.
* A person with two fingers on the keypad gets a key reported again when the one before it in the scan is released, and
  a key pressed again within the beep of its first press is lost (`keypad.c:73`, against `keypad.h:23`). Of more than
  nine digits the first nine are judged.
* Line endings: `import-keys` reads CONFIRM up to '\r' or '\n'. A terminal that sends CR LF leaves the LF of the command
  line for that prompt, which aborts at once; one that sends CR alone never ends a pasted line.

## 5. What is proved

All proofs are for arbitrary constants under the named assumptions of the modules (`InputAssumption`,
`KeyStatesAssumption`, `ClockStatesAssumption`, `NonceAssumption`, `KeyIdMaxAssumption`, `TypedIdsAssumption`,
`BackupsAssumption`, `NetworksAssumption`, `KeysAssumption`, `DigitsAssumption`, `LengthsAssumption`, `BounceAssumption`,
`TimesAssumption`, `WatchdogAssumption`, `AwayAssumption`, `ClockAssumption`, `DnsAssumption`, `PromptAssumption`,
`SessionAssumption`), which TLC evaluates on its instances.

* **DoorVerifyProofs.** `HandshakeInv` is inductive. Opening only for a judged attempt is not: one needs `NonceOrder`
  (core 0 is never ahead; what it judges is newer than what it answered), `PayloadGuarded` (a published payload stays
  put), `CopyFaithful` (a copy under the current nonce is the current attempt; a torn copy carries an older nonce)
  and `VerdictIsMine`. From it follow `LatchHeld`, `VerdictStable`, `AnsweredOnce` (each store of a verdict or of an answer
  is for a request newer than the last one answered), and step by step the refinement
  `CoresImplementDoorAccess`.
* **KeyStoreProofs.** `StoreInv`: records sit under their own id, and the half-done part of a command is always the
  one `dels`, `saves`, `open` and `wifiStep` say, through every failure. `WifiKept`: only a format takes the WiFi
  credentials away, so no crash turns a configured lock into one that lets anybody log in.
  What the commands promise needs to know, between any two flash commits, what the files were when the command began:
  that is `CommandInv` (theorem `CommandsTracked`), with a part for each kind of command. `UpdateInv`: the record that is
  still to be saved is the one on flash with one field edited; `ImportInv` and `LastSaved`: each id deleted so far is gone
  and each position of the backup saved so far is on flash, unless a later one has the same id; `DeleteTrue`,
  `WifiTrue`, `SaveTrue`: what has been answered "OK" is there. From it follow `RepliesAreTrue`, `AdminImported`,
  `ExportsComplete` (with `StoreInv` alone), `SecretsKept`, and the refinement `StoreIsKeyMap`: a flash commit either
  changes no usable key, or is the one at which the command takes effect in `KeyMap` (`FileSteps`, `MapStep`).
  The three switches of the module appear as hypotheses, and none of these theorems holds without the ones it has:
  `~IgnoredCloses` in `RepliesAreTrue` and `AdminImported`, `~IgnoredDeletes` in `RepliesAreTrue` - "OK" is only true if
  what the code does not look at does not fail - and `~CorruptTouched` in `RepliesAreTrue`, `SecretsKept` and
  `StoreIsKeyMap` - an update of a record whose checksum is wrong saves it as good, under the id it carries (the run
  `key_corrupt` and section 4). Crashes, corruption and errors that the code does look at are unrestricted.
  `AdminImported` is about any backup, one that names an id several times included: an enabled admin stays unless each
  admin record that the gate counted is overwritten by a later one of its id.
* **KeypadEntryProofs.** `BufferIsTyped` is inductive together with the lengths. `KeysReportedOnce` rests on
  `DebounceInv`: a key that the scan could still meet and that nothing entitles to a report was the last one reported, or
  is up for good, or is hidden behind a key that is held (`NotAgain`), each of which is true by the time the reading
  counts, since no contact bounces longer than the debounce time; `SettledKey` and `NotHidden` say what happens when
  the key in front goes away. `EntriesAreTyped` is about numbers that `atoi` reads digit by digit: the recursion is
  shown to be well defined (`ReadsExists`, `ReadsUnique`) and to split at any digit (`SplitNumber`) by induction over the
  digits. `IntervalInduction` states that induction for a set instead of a predicate, from the well-foundedness of the
  natural numbers (`WFMin`), so that first-order provers can use it.
* **LockTimingProofs.** That the watchdog does not fire is not inductive: `FeedInv` says that the watchdog always exceeds
  what core 1 still has to sleep (`Unfed`), each sleep prolonged by one flash operation, and how far a tick and a stop
  may take the two apart. `WatchdogAssumption` is all that is asked of the durations. `PulseInv` names the core that
  will end the pulse, `AwayInv` adds up what may follow a duty, `MailInv` says where the request that core 1 waits for is
  (not yet seen, being judged, answered) and how that relates to the time since the last look and the last answer.
  A step of core 1 that is due can be kept back by one stop, of which `Delay` is what may be left; since a stop may also
  fall between the feed at the top of the wait and its sleep, the wait may be a stop and a tick behind main1's loop
  (`Slack`).
* **NtpClockProofs.** The budget never wraps; the two walk bounds hold by an invariant that relates the distance of
  the clock from an undisturbed one to the budget used and to the number of syncs, with lemmas on the truncation.
  `OneWindowBack` (one correction takes the TOTP window back by one at most) holds whenever the epsilon is not longer
  than a window, which is its hypothesis; in `ntp.h` they are 5 s and 30 s.
* **NtpSyncProofs.** `TrueMeansSet` needs to know that a state of SUCCESS inside a call was set in that call
  (`ResultInv`); `ClosedOutside` that the pcb is open exactly inside (`SocketInv`).
* **ImportPromptProofs.** The codec first, on real bytes: `EncodedDecodes` and `DecodedEncodes` say that the groups that
  `base64_decode` accepts and those that `base64_encode` prints are the same, the unpadded ones anywhere and the padded
  ones only at the end, and that each direction undoes the other;
  `Byte1Fields` to `Byte3Fields` take a byte apart into the bits that go to different characters.
  Then the buffers and what they contain against what was sent; `DecodedIsEncoded` needs that the number of bytes
  written is three for each group but the last.
* **AdminSessionProofs.** `SessionHeld` ties `admin_mode` and its deadline to the history.

Every safety property that a passing run checks, every action property and both refinements are theorems. Only
model-checked, because they need fairness and ENABLED, which the prover does not support: `AttemptEnds`,
`RequestServed`, `LoopGoesOn`, `Resyncs` and `HeldKeyReported`.

## 6. Not modelled

HMAC-SHA1, the calendar conversion of `clock.c`, Base32 and the QR code (pure functions); LED and light (output); entropy
and memory wiping; the line editor of the console and the parsing of arguments (a complete line is one event, an id is
what remains after the cast); littlefs, lwIP and the SDK (external, modelled from how the code calls them, lwIP's own
races with core 0 included). The components are checked one by one; what one needs of another is a free choice of the
environment where it is modelled (`anyAdmin` and `wifi` in `AdminSession`, any key state in `DoorVerify`), so that the
composition has no behaviour that a part does not have.

## 7. Plan

Done, in this order: `DoorAccess`/`DoorVerify` (the reason the device exists), `KeyMap`/`KeyStore`, `NtpClock`,
`NtpSync`, `ImportPrompt`, `AdminSession`, `KeypadEntry`, `LockTiming`, `Base64`, `/wifi` in `KeyStore`, each with
proofs, until every safety property was a theorem. What is left:

1. The steps on which the liveness properties rest, as far as they are safety: for `AttemptEnds`, `RequestServed` and
   `LoopGoesOn`, that nothing but the action whose fairness is assumed leaves the state that waits for it.
2. Theorems about the abstract specifications themselves (`DoorAccess`, `KeyMap`), which hold of the code by the two
   refinements.

## 8. Running

In this directory: `tlc -workers 2 -config door_verify.cfg MCDoorVerify` (each `.cfg` belongs to the `MC` module that
`PROJECT.json` names with it; `keypad_entry`, with its liveness property, takes a minute and a half, the others at most
about half a minute), and `tlapm DoorVerifyProofs.tla`.
