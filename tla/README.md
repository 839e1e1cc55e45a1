# Verification of Trominal

TLA+ models of Trominal, checked with TLC, and proofs about them, checked with
TLAPS. Trominal is a self-hosted SSH client with an end-to-end encrypted vault: a
Laravel API on PostgreSQL (`apps/backend`), a React client that runs in the browser
and in a Tauri desktop shell (`apps/client`), shared TypeScript packages
(`packages`) and Rust code for shells, SSH and file transfers
(`apps/client/src-tauri`, `crates`).

Run a configuration with `tlc -config X.cfg MCY`, the proofs with `tlapm
YProofs.tla`. `PROJECT.json` lists every run, the source lines each definition
models, a mutant that breaks each property, the hazards, the findings and the
theorems.

## 1. Inventory

| Component | State | Operations | What is hard about it |
|---|---|---|---|
| Session tokens (`AuthService`, `UserSuspensionService`) | `refresh_tokens` (family, rotated, revoked, expiry), `personal_access_tokens`, `users.suspended_at` | login, refresh with reuse detection, logout, password reset, replacing a factor, suspend | statements of concurrent requests, row locks, deadlocks, requests that die half way |
| Second factor (`AuthService`, `TwoFactorCodeVerifier`) | secret, pending secret, last used step | enable, verify, disable, spend a code | ORM saves computed from a stale row, codes of neighbouring steps |
| Personal vault (`VaultRotationService`, `SerializeVaultWrites`, client `rotation.ts`) | records, wrapped private key, `vault_version`; per device the key and material | save, delete, unlock, rotate master password, re-bind | a write that waits for a rotation, several devices, lost responses, second-granular stamps |
| Teams (`TeamService`, `VaultResourceController`, client `features/teams`) | team, key version, memberships with wrapped keys, records | invite, change role, remove with re-keying, rename, save, delete | snapshot on the client against concurrent edits, last owner, torn reads |
| Client session (auth and vault stores, API client singleton, secure storage) | tokens, user, material, key, epoch; stored URL and refresh token | hydrate, sign in, sign out, change server, unlock, rotate, lock | answers that arrive after a sign-out or a change of server, restarts between two steps |
| Registration, invites, setup token | `app_settings`, `invites` | register | first user, single-use invite |
| Administrators and roles (`AdminAccessGuard`, `RoleAdministrationService`, Filament panel) | roles, permissions, suspensions | edit, delete, suspend | the last usable administrator under concurrent changes with stale forms |
| Terminal tabs, tunnels, transfers of the client | stores and registries fed by native events, React state of a page | open, close, reconnect, cancel, teardown | a sign-out or a change of page between two steps; commands of the shell that overtake events |
| Desktop shell (`pty.rs`, `ssh_tunnel.rs`, `sftp_process.rs`, `lib.rs`) | tables of children, threads | open, close, cancel, quit | exit against cancellation, a grandchild that holds a pipe, the main thread as a queue |
| SSH identities of the shell (`ssh_session.rs`) | private directory, agent, askpass server | prepare, forget, sweep | clean-up on every path, crash and quit between two steps |
| Vault records on the client (hooks, write scope, team scope) | workspace that is shown, key of a team, cached lists | save, delete, switch, refresh | a workspace that changes while a write or a load waits |
| Approval of SSH host keys (gate, prompt, `host_key.rs`) | pins, approvals of the session, one question at a time | scan, ask, trust, decline, check | several operations that ask, hosts read before an approval |
| Remote pane of the SFTP page | picked host, path, listing, selection, commands under way | pick, list, refresh, make, remove | effects that a render cancels, answers that nothing cancels |
| Names and dates of the SFTP page (listing parser, paths, batch arguments) | the row of an entry | list, remove, fetch, send, open, go up | what the text of `ls -la` says for names with blanks, other languages, leap days |
| One sftp child (`sftp_process.rs`) | child, two pipes, capture buffers, mutex | spawn, drain, poll, collect, cancel | output that is longer than a buffer, a cancel in the middle of an exit |
| AI assistance, AI settings | requests, overlay, panel; form, query, tests | ask, abort, accept; edit, save, test | late answers, one ref for several requests, a save that makes the record |
| Host editor, installation of a key | form, runs of a submission, dialog | open, submit, install | closures over an old render, several awaits, a shell command that waits for a person |
| Web SSH (`SshTokenVerifier`, `WebSshSessionOpener`, `WebSshProxy`, `websocket-transport.ts`) | `ws_session_tokens`, both ends of a connection, timers | mint, consume, connect, check, pump, close | single use, binding of credentials to a destination and its key |
| Sync feed | a client's cursor | read changes since | stamps against commit order |
| Cryptography, API client, appearance, audit, limiters | none or counters | - | primitives and I/O |

Interactions. The client's stores call the API through one singleton client; a vault
write passes `auth:sanctum`, then `SerializeVaultWrites`, which takes the `users` row
and looks at the token again, then the controller; a master-password rotation takes
the same row and ends the other sessions; a team transaction takes the `teams` row.
In the desktop client, the webview sends commands to the shell: those declared `fn`
run on its main thread in the order of the calls, those declared `async fn` beside
it; the shell answers, and emits events. `teardownSession` ends everything the client
holds for an account: tabs, transfers, tunnels, the workspace of a team, the vault.

What makes each correct: a refresh token is worth one exchange and what was ended
stays ended; a code is worth one use and only a confirmed secret counts; the vault
version names the vault key, no record is left under another key, and no edit is lost
to a rotation; a team has one key, that its members and nobody else know, and an
owner; credentials and keys stay with the server and the session they belong to; the
instance can always be administered; a record is sealed for the workspace it belongs
to; a connection is made only to a host key somebody approved; no process, agent or
copy of a key is left behind or out of reach; what the user chose last is what is
shown and what counts.

The hazards, each at its line and with the properties that cover it, are in
`PROJECT.json`; section 6 names those that no property covers.

## 2. Modules

| Module | Models | Variables and the code |
|---|---|---|
| `OneTimeTokens` | abstract: what chains of rotating credentials promise | issued, spent, void tokens |
| `SessionTokens` | one account's tokens as the SQL statements of concurrent requests | `rotated`, `revoked`, `expired`, `family` are the columns of `refresh_tokens`, `access` the rows of `personal_access_tokens`, `lock` and `userLock` PostgreSQL's row locks, `pc` the statement a request is at |
| `VaultRotation` | the personal vault of one account on several devices | `user`, `records` the rows, `material` and `key` what a device holds, `write`, `rotation`, `rebind` its requests in flight; history: `behind` |
| `TwoFactor` | the second factor of one account | `row` the columns, `snap` what a request read, `code` what it presents |
| `SharedVault` | abstract: what a vault promises the people who write it | the number of the edit that can be read in each place, the edits that wait for an answer, how often the key was changed |
| `TeamVault` | one team and its clients | `team`, `members`, `records` the rows, `scope` the selected key, `request` what a client has under way |
| `ClientSession` | one running client and its servers | one variable for each field of the stores, `task` how far each asynchronous operation got, `live` the sessions the servers honour |
| `Administration` | registration and the panel, as transactions | `users`, `admins`, `suspended`, `roles`, `granted`, `setting`, `invites` the rows, `req` the requests with what each read into its form |
| `NativeBridge` | what the parts of the desktop client share | `ipc` the commands the main thread has not run, `page` the route, `account` how many sessions were signed out, `ops` the numbers of operations given out |
| `TerminalTabs` | tabs and their sessions, down to the PTYs | `tabs` the store, `call` the runs of `connect()`, `obj` the session objects, `closing` closes that wait, `pty` and `exits` of the shell; history: `displaced` |
| `Tunnels` | the tunnels page, its registry and the shell's children | `runtime` React state, `tracked` the registry of `tunnel-sessions.ts`, `start`, `stopping`, `sync` what is under way, `up` the children; history: `forgotten` |
| `Transfers` | the list of transfers, the commands and events of the shell | `items` the store, `process` the children, `events` on their way |
| `VaultRecords` | hooks, lists and the choice of the workspace | `rows` the server's rows with what sealed them, `table` the kind of each, `version` of the team's key, `scope`, `teamKey`, `load` the switcher's effect, `write` the mutations, `shown`, `behind`, `marked` the cached lists |
| `HostKeys` | the gate before a connection | `presents` what hosts present, `pinned` the server's pins, `seen` the pins the pages hold, `sessionApprovals`, `gate` the operations at the gate, `prompt` the question; history: `trusted`, `decided` |
| `KeyAgents` | what is prepared for `ssh` and taken back | `job` per operation: directory, agent, askpass, child; `app` whether the application runs, `platform` |
| `FilePanes` | the remote pane | `picked`, `resolve`, `hostArgs`, `remotePath`, `pane`, `chosen`: its states; `calls`: commands not answered |
| `Listings` | a name and a date from listing to command | `entry` the file, `base` the pane's path, `row` what the page shows, `order` the command of a click |
| `SftpProcess` | one child | `sftpChild`, `pipes`, `captures`, `waiter`, `canceller`, `mutex`, `recorded` |
| `Assistant` | requests to a language model | `asks` the requests, `overlay`, `inlineRef`, `timer`, `panel` the states and refs of the two components; history: `astray` |
| `AiSettings` | its settings | `stored` the record, `query`, `settings` the form, `fetches`, `tests`, `saving` what is under way |
| `HostEditor` | the editor of hosts | `hosts`, `creds` on the server, `draft`, `submission`, `bootstrap`, `shell` |
| `WebSsh` | token, both ends of a connection, proxy | `ticket` the rows, `rowLock` their locks, `sock` the client's end, `conn` the proxy's |
| `Workspace` | the parts of the client together, and the sign-out | the conjunction of all |
| `...Proofs` | proofs about a module; `WorkspaceProofs` has records, host keys, web SSH, one sftp child, agents, the remote pane, assistant, AI settings and tabs of `Workspace`; `ProcessProofs`, which extends it, has commands, transfers, tunnels and the host editor, and what holds of all parts together | - |
| `MC...` | instances for TLC | sets of model values; in `MCClientSession`, which operations may overlap |

`SessionTokens` implements `OneTimeTokens` (`INSTANCE ... WITH spent <- rotated,
void <- revoked`): checked in `SessionTokens_rotation`, proved for every size.
`TeamVault` implements `SharedVault`: `content` is what the rows hold for whoever has
the key of the team (`Readable`), `open` the edits of requests under way (`Open`).
Loading, adding, changing roles and deleting the team are steps that nobody who writes
can see; a removal changes the key and nothing else. Checked in `TeamVault_keys`,
proved for every size.

Each module takes the others' effects at their interface: `VaultRotation` has one
access and one refresh token per device and lets a sign-in add them, `ClientSession`
has servers that accept one generation of each session's token. In `Workspace` the
parts share the bridge and the sign-out and nothing else, so a behaviour uses one of
them (`Use`); the theorems hold for any set of parts.

### Abstractions

- *Vault and team keys* are numbered in the order they are derived; a ciphertext is
  the pair of its key and the number of the edit that made it. Encryption is ideal:
  whoever has the key reads, nobody else does.
- *SessionTokens*: each sign-in is a device of its own, so a family is a `device_id`.
  A token pair is one token; `access` says whether its access token still
  authenticates. Locks on rows of `personal_access_tokens` and the key-share locks of
  foreign keys are left out; `VaultRotation` has the latter, where they hold up a
  sign-in.
- *VaultRotation*: the middleware's lock and the controller's statements of a write
  are one step, since nothing else touches the vault without that lock; the DELETE of
  other tokens and the commit of a rotation are separate, since a sign-in needs no
  lock for its access token.
- *TwoFactor*: a request works on the row as it read it and `save()` writes the
  attributes that differ from that. A refused or locked-out request changes nothing
  and so does not start.
- *TeamVault*: the transactions of `TeamService` and the vault writes of a team hold
  the `teams` row from before their checks to their commit and are one step each;
  `delete()` checks outside of it and is two; the team a client loads is read in two.
  A removal on the client is its four awaits: list, read, send, answer.
  Changes of a role to the same role, and adding oneself, which is refused, are left out.
- *ClientSession*: an operation is cut at each await that reaches storage, the native
  bridge or the network. Awaits that resolve within the same task (`localStorage`, key
  derivation on the main thread) do not cut. The steps of `applyTokenPair`, `logout`
  and `handleConnect` are interleaved with everything else, restarts included. The
  server is a session table; the many requests of a rotation are one.
- *Administration*: pages of the panel are opened by a usable administrator, a save
  writes any values of its form, the row is read before the lock is waited for; the
  lock, the changes and the assertion of the guard are one step, the commit another
  (PostgreSQL, READ COMMITTED). The own record's roles and suspension are disabled in
  the form. The e-mail address and the end of an invite are a refusal that may happen.
  No account is ever deleted.
- *Client parts*: what a person answers, when a child exits and what a server replies
  are choices. Frames and data of a terminal, the texts of errors and layout are left
  out. `Listings` works on characters, as its properties are about conversions: an
  alphabet of the characters the code treats differently, dates from 1970 to 2101.
  `HostEditor` leaves out what `ssh` prints and takes a private key as the identity;
  lists of credentials are sets, of which the page takes the one with the latest
  `updatedAt`.

## 3. Runs

Every property has a mutant in `PROJECT.json`: a slip of the code under which the
same run finds the property violated.

| Run | Question |
|---|---|
| `SessionTokens_rotation` | Three requests out of sign-in, refresh, logout, reset, replacement and suspension, with expiry and requests that die after any statement: can two refreshes use one token, and does each way to end sessions end all that existed when it began? `SELECT ... FOR UPDATE` takes no lock here (SQLite), so only the claiming UPDATE decides |
| `SessionTokens_finish` | Four requests with PostgreSQL's row locks, taken in any order: does every request end? |
| `VaultRotation_rotation` | Two devices rotate, unlock, re-bind, write, sign in, lose responses: does the version name the key, is what is stored encrypted with the account's key, does a rotation carry over every edit it can tell from the one it read? |
| `TwoFactor_factors` | Four requests that sign in, step up, stage, confirm and disable: is a code accepted once per confirmation, do only confirmed secrets count? |
| `TeamVault_keys` | Two users load the key, save, rename, change roles, add and remove, or delete the team: one key throughout, always an owner, nobody outside knows the key, and does each edit take effect once or not at all, in its own place, and stay until it is replaced? |
| `ClientSession_session` | Sign-ins, sign-outs, changes of server, unlocks and vault requests that overlap, with restarts between any two steps, a secure storage that refuses, revocations and reconnections: does a credential ever reach another server, does a vault key outlive its session, is storage ever behind memory, does the splash end on every way out but the known one? Deadlock is checked |
| `Workspace_processes` | Terminal tabs, tunnels, transfers, agents, web SSH and one sftp child, each in turn, with a patient and a hasty user: is a process ever out of reach, but in the two ways the code has, is anything lent to `ssh` left behind, does a token open one connection, does a finished transfer stay finished, does what is under way end? |
| `Workspace_records` | Vault records, host keys, the remote pane, assistant, host editor, listings and AI settings, each in turn: is a record sealed for its own workspace, is only an approved key connected to, does the latest choice count, does a row of a listing mean its entry, do loads and installations come to rest? |
| `Administration_panel` | Three requests of the API and the panel, from a fresh instance and from one with two administrators: can somebody always administer it, is there one founder, does an invite admit once? |

`LatestChoiceCounts` is a conjunction over the parts, each with its own condition, for
the code does not drop every late answer:

- `PanesAgree`: the pane's listing is that of the host and path shown, for a user who
  waits for removals, new folders and refreshes;
- `LatestDecision`: a decision about a host key is the latest one, for a user who does
  one thing at a time;
- `EditorAgrees`: the attached identity is the picked one, for a user who waits for a
  submission;
- `LateAnswersAreDropped`: for every user, and requests made, aborted and answered in
  any order with any change of tab, a suggestion is of the tab (and the line) that is
  shown and Stop aborts what streams; except the requests in `astray`: those whose ref
  was cleared by the end of another one (the `finally` of `InlineSuggestion.tsx:120-122`
  and of `AskAiPanel.tsx`), and a suggestion on the screen when its tab was left;
- `SettingsAgree`: "Saved." is true and the next save updates the record of the last
  one, whatever is edited, listed or tested meanwhile, for a user who does not save
  before the settings were read. It says nothing of lists and tests, which are shown
  for whatever provider is in the form when they come (`AnswersFitTheForm`, below).

So is `NothingRemains`: the private key of a connect whose listeners were registered,
what `ssh_session.rs` prepares, an sftp child whose end was told.

`EveryProcessIsReachable` is for the user who waits for a connect, a start or a stop to
end. Nothing in the pages prevents two losses even then, and two history variables name
them: a session that still ran when Reconnect or Restart replaced it (`displaced`), and
a tunnel that the page took for idle and forgot while it ran or started, because its
status was read before the start or not at all when its row was removed (`forgotten`).
`OldKeyWritesRefused` is about every device, with the reasons (`behind`) for which a
device that a rotation spared may still write with an old key: it rotated and has not
taken up the answer (`own`), it signed in between the rotation's DELETE and its commit
(`sign-in`), it took up an answer that came too late (`answer`).
`ProcessesSettle` and `RecordsSettle` are the liveness of all parts: in a behaviour one
part is in use, and what is said of the others holds. The types of all parts are one
`TypeOK`; `Workspace_processes` checks it, and for the parts of `Workspace_records`
it is proved (`TypesHold`).

### Disagreements

These runs are expected to fail; each shows the code doing other than its comment
says.

| Run | What it shows |
|---|---|
| `VaultRotation_seconds` | an edit made in the same second as the one the client read is overwritten by a rotation |
| `TwoFactor_replay` | confirming a secret with an older code sets the last used step back: a spent code works again |
| `ClientSession_switch` | a sign-in or hydration that is answered after a change of server puts the old server's tokens on the new server's client |

`ClientSession_switch` also explains why `sessionEpoch` does not help: `hydrate()`
compares it, but no sign-out can happen before the hydration has ended, and the
change of server, which can, does not bump it.

These properties are refuted by TLC and have no run, for their question is settled; to
see the traces write a configuration. What they show is what the properties of the runs
except or leave open:

| Property | Configuration | What it shows |
|---|---|---|
| `WaitingWritesFail` (`VaultRotation`) | constants of `VaultRotation_rotation` | a sign-in that inserts its refresh token before the rotation's lock and its access token between the DELETE (`VaultRotationService.php:74`) and the commit keeps a session with the old material; its write passes the second look at the token and stores ciphertext of the old key, which `SerializeVaultWrites.php:18-21` says a write that was in flight does not. Answers that come too late do the same |
| `NoProcessIsLost` (`Workspace`) | constants of `Workspace_processes`, `Use = {{"tabs"}}` or `{{"tunnels"}}` | Reconnect on a live tab drops its session without closing it (`TerminalPage.tsx:196`); a tunnel started while the status is being read is un-tracked (`TunnelsPage.tsx:127-130`, no guard at `:181-205`), as is one whose row is removed before its status is known (`:173`) |
| `EveryKeyIsWiped` (`Workspace`) | the same, `{{"tabs"}}` | a connect whose `import()` or `listen()` fails ends before its `try` and keeps its copy of the private key (`native-transport.ts:42-56`) |
| `CompletedIsNotCancelled` (`SftpProcess`) | the same, `{{"pipes"}}` | a child that ends between `try_wait` and `kill` is reported as cancelled (`sftp_process.rs:141-147`; `:56-59` says "a completed one is never reported cancelled") |
| `NoProcessOutlivesTheAccount` (`Workspace`) | the same, `{{"tabs"}}`, `Pace = {"hasty"}` | a sign-out during a connect leaves its PTY running (`terminal.ts:45-48` against `use-terminal-actions.ts:72`) |
| `AnswersFitTheForm` (`AiSettings`) | constants of `Workspace_records`, `{{"settings"}}` | a list or a test asked for before the provider or the key was changed is shown for the new one, and the list may empty its model (`AiSettingsTab.tsx:110-129`, `:149-155`) |
| `InFlightIsTracked` (`Assistant`) | the same, `{{"assistant"}}` | the end of an aborted request clears the one ref, and the newer request can no longer be aborted (`InlineSuggestion.tsx:45-46` against `:121`) |
| `SuspensionIsFinal` (`SessionTokens`) | `Spec`, three tokens and requests, `RowLocks = TRUE`, `Enabled = {"login", "refresh", "suspend"}` | a sign-in or refresh that read the account before a suspension leaves a pair that works once the suspension is lifted (`UserSuspensionService.php:44`) |
| `ReuseEndsFamily` (`SessionTokens`) | the same with four requests and `"reuse"` for `"suspend"` | a successor committed while the family is revoked survives (`AuthService.php:372`) |

One way to leave the splash up is part of `SplashEnds` itself: when the server rejects
the stored refresh token and `secureStorage.delete` rejects too (`auth.ts:110`,
`secure.rs:57-63`), the handler throws, `isHydrating` stays true and the task is
`Stranded`.

`TeamVault` with three owners and no records (`Enabled = {"add", "remove",
"delete"}`) needs no run any more: the proofs hold for every number.

Seen while modelling, without a property:

- another session that refreshes while a second factor is replaced goes on
  (`AuthService.php:606`);
- a committed rotation whose response is lost is reported as having changed nothing
  (`AccountTab.tsx:318`);
- a replacement of a factor is staged without a code if the request read the account
  before the first factor was confirmed (`AuthService.php:430`);
- connecting again to the URL in use drops the bearer of a signed-in client, so that
  a later change of server revokes nothing (`ConnectPage.tsx:78`);
- a vault opened while a sign-out waits for its answer stays open after it
  (`UnlockPage.tsx:33`);
- a sign-out or a change of server whose storage refuses ends half way: the stores are
  wiped of the vault, but the tokens in memory and in storage stay (`auth.ts:203`,
  `ConnectPage.tsx:73`, `:77`);
- the answer of a re-binding that comes after the device has signed in anew or taken up
  newer material puts the older one back (`stores/vault.ts:217-219`);
- a suggestion on the screen stays there when the tab changes
  (`InlineSuggestion.tsx:201-209` aborts the request and leaves the overlay);
- after a wrong code `TwoFactorSetupPage.tsx:66-75` says "Try the next one", but in
  state `error` its `verify()` returns early; a `fetchMe` that fails after a
  successful verification ends there too;
- listings: a name's leading blanks are lost (`sftp.rs:658-664` says names with
  spaces are preserved), so removing `" a"` removes `"a"`; the name of a link is cut
  at `" -> "`; an owner or group with a blank hides the entry; control characters are
  printed as `\ooo` and do not come back; `clean_remote_path` trims, so that
  directory `"docs "` lists `"docs"` while its removals go to `"docs /x"`; local
  names are decoded with loss. `RowsMeanEntries` excludes these names by name;
- the output of a listing is kept like an error message, its last 64 KiB
  (`sftp_process.rs:14`, `sftp.rs:290-299`): a large directory shows only its end;
- AI settings: the first save changes the identity of the record and the re-fetch
  overwrites what was typed meanwhile (`AiSettingsTab.tsx:84-87`); typing a model
  keeps an old "✓"; after the lost answer of a first save every later one creates
  again and fails;
- a later submission of the host editor closes whichever editor is open then.

### Bounds

- Requests of `SessionTokens` and `TwoFactor` run once each (`Req`): three or four at
  a time, enough for two that race and one or two that end what they made; `Token`
  bounds the pairs issued (`Room` keeps a request that would issue one from starting
  when none is left). Three tokens give a chain of three, or a chain of two beside
  another session.
- `MaxKey`, `MaxEdit`, `MaxTime`, `MaxStep`, `Role`, `Enabled`: how many keys are
  derived, edits made, seconds and time steps pass, which roles and operations occur.
  Two rotations (`MaxKey = 2`) are the least in which a device is two keys behind; two
  seconds (`MaxTime = 1`) the least in which stamps can differ or agree; three time
  steps are the window `TwoFactorCodeVerifier` accepts.
- `MaxSession`, `MaxGen`, `MaxEpoch`: sign-ins, refresh tokens of one sign-in and
  sign-outs between two restarts. Three sessions let both servers have one and one of
  them an old and a new one; two of the others give an old and a new one.
- `Overlap` says what may be started while something else is in flight. `Hasty` allows
  everything; `Settled` leaves out the pairs under which properties fail: a sign-out
  or change of server together with a sign-in, the hydration, an unlock or a rotation,
  and two sign-ins at once (the later answer wins the storage, the earlier may win the
  memory). Every other pair overlaps.
- `Administration`: three accounts, one invite, three requests, which may all be
  under way; `Start` is the fresh instance and one with two administrators, the least
  of which one can remove the other.
- Client parts: `MaxOps` numbers of operations (two: one that is under way and one
  that overtakes it), `MaxAccount` sign-outs, `MaxTabs` tabs, `MaxIpc` commands waiting
  for the main thread, `MaxVersion` versions of a workspace's key. `Use` is the set of
  parts that a behaviour may use: one in each behaviour of the runs, any in the proofs.
- `Pace`: a *patient* user waits for a connect, a start or a stop of a tunnel, a save,
  to end before the next of its kind, closing or signing out, and leaves unfinished
  transfers in the list; a *hasty* one does not. Nothing else is kept from the patient
  user: Reconnect on a live tab, a start while the status is read, a second suggestion,
  another tab or another provider while something is in flight are all there. Where the
  comments of the code promise something only for the first, the property says
  `pace = "patient"`. Only the patient user has the cached lists (`viewed`), only for
  the hasty one do other people change things. To keep the instances small, only the
  child of the first session ends by itself (for the hasty user, of a session with a
  host) and only its listeners fail (`First`); the hasty user has one kind of tab and
  one identity to pick; and the histories `displaced`, `forgotten` and `attached`, which
  only properties of the patient user read, are kept for that user. The patient user of
  the AI settings saves when they were read, the hasty one asks for neither list nor
  test, and a key is entered but not taken away. No action of the assistant asks for the
  pace, so it is run with one; nor does it matter to listings and the sftp child.
- The sign-out reaches tabs, tunnels, transfers and records; the other parts have
  nothing it ends, or keep what they have (host keys), and are run without it.
- `Layouts` are the kinds of the two records, one pair for each way to refer;
  `RemovedElsewhere` happens at version 1 only, `FirstHost` has the first question.
- One web token and two connections; one host with two credentials and two identities
  in the editor; two directories per host; two tabs in the assistant; a list or a test
  at a time in the AI settings; pieces of 6 and 2 bytes, one in the pipe and two
  kept, in the sftp child (the constants of the code are larger in the same order).
- Symmetry is used over requests, secrets, devices, records, users and servers, which
  no property or constant tells apart, and never in a run with liveness.
- Deadlock checking is off where every request, sign-in or edit of the bound may be
  used up, or a part waits for a person: the model then stops, the program does not.

### Fairness

`SessionTokens_finish`: weak fairness of each request's next statement and of the
deadlock detector: a PHP worker runs its request to the end, PostgreSQL grants a lock
that is free and breaks every cycle of waiting transactions after `deadlock_timeout`.
Requests need not arrive.

`Workspace`: weak fairness, part by part, of the event loop (a promise that can
resolve does, an effect that is due runs), of the main thread and the other threads
of the shell (a command that waits runs, the monitor polls, the draining threads
read), of the deadlines (`ssh` preparation, key installation, the grace of an output)
and of the proxy's own steps. Nothing is assumed of people: a question may stay open
for ever, and the properties except that; nor of children and servers: a session may
run for ever, and a `fetch` without timeout may not be answered where the property
says so. `KeyTest` has no deadline over all, so `InstallsEnd` excepts it; nor has the
`ssh-add -L` of a preparation, which asks the own agent only and is taken to end.

## 4. Proofs

All for any sets and bounds. tlapm checks every leaf; `PROJECT.json` lists the
theorems a reader should know.

*`SessionTokensProofs`*, with or without row locks: `TypeCorrect`,
`FamiliesAreChains`, `RefreshTokensAreOneTime` (the refinement of `OneTimeTokens`),
`EarlierSessionsEnd`. `OneHeadPerFamily` is not inductive: a request between the
claiming UPDATE and the INSERT of the successor relies on nobody else rotating its
token meanwhile. `ClaimHeld` says so: the request holds the row's lock, and the row is
neither rotated nor revoked. `ArgIssued` and `RootsIssued` say that tokens and the
roots of families exist, so that a new token is in no old family; `PcMatchesOp` ties
statements to operations; `RowsHeld` keeps the locks an ending transaction relies on.
The refinement follows: only `RefreshIssue` changes `rotated`, and `ClaimHeld` gives it
the guard of the abstract exchange. `EarlierSessionsEnd` adds an invariant on the
history variables: what existed when the operation began is revoked already, or is
among the rows the operation has still to revoke.

*`VaultRotationProofs`*: `VersionsNameKeys` from: the material of a device is no newer
than the account's, and an equal version means an equal key; `OldKeysAreRefused` from:
a rotation deletes the access tokens that it found and commits later, so that who has a
token then is the device that rotates or one that `behind` says to have signed in
between (`OthersFit`); whatever else a device holds is the account's, or an answer that
`behind` says to be late (`AnswerFits`); `EditsAreKept`, an action property.

*`TwoFactorProofs`*: `FactorsAreConfirmed` from what each request has in hand (a
secret it read active was confirmed); `UsesAreCounted` from two counts: a step is spent
only above the last used one, and only a confirmation lowers that.

*`TeamVaultProofs`*: `TeamHasOneKey` from the pairs of key and version that a client
holds (`Pairs`): an equal version means the team's key, and generated keys are new;
`OutsidersAreLockedOut`, `AnOwnerStays`, `EditsAreKept`. `TeamsShareOneVault` is the
refinement of `SharedVault`. It needs two invariants: with `OneTeamKey` every record is
readable, so that what can be read is the body of the row (`AllIsReadable`), and edits
are numbered apart (`Numbered`), so that an answer closes one edit and no other. Then
each step of a client is an edit made, dropped or nothing (`ClientsAreUnseen`), each of
the server's one effect with its answer (`ServerIsSeen`), and a removal that is
committed changes the version only (`RemovalIsUnseen`): this is where a rotation that
overwrites a newer row would show.

*`ClientSessionProofs`*: types and `SplashEnds` (the flag is set while the hydration is
under way, or after it was stranded) for any `Overlap`. For `Overlap
\subseteq Settled` (what the failing pairs leave, section 3): `OnlyHomeServer`,
`KeyOfAccount`, `StorageKeepsUp`, from an invariant that says for each operation in
flight what it has read, stored and set so far (`Stage`, `AtHome`), that the tokens of
two servers are apart and what is stored belongs to the stored server (`KeptAtHome`).
The key lemma: who enters is alone, who leaves meets only others that leave.

*`AdministrationProofs`*: `StaysAdministrable` needs that lock holders exclude each
other, that what a holder decided on after taking the lock is still so (`StillChecked`),
and that forms mean accounts that exist; `FoundersAreOne`, `InvitesAdmitOnce`.

*`WorkspaceProofs`*, for any set of parts in use:

- `SealsAreOfTheWorkspace`, `RelationsStayInside` and `DeletionsStayHome` from writes
  under way that hold the key of their own workspace and version.
- `TrustedKeysOnly` and `TheAskerIsShown` from: what is pinned or approved was trusted,
  a gate that goes on compared with one of these. `TheLatestDecisionWins` needs more:
  for a user who does one thing at a time what was decided last is what the session
  remembers, unless its save is under way (`Recalled`), and what goes on after a
  decision goes on with it (`FollowsDecision`), whatever hosts a gate was given.
- `TokensAreUsedOnce` from the row lock of `consume()`; `CredentialsAreBound`:
  credentials go to a server that presented the pinned key only.
- `AgentsInvariant`: directory, agent, askpass and child of an operation go together,
  whatever fails, quits or crashes. `PipesInvariant`: the kept pieces of an output are
  consecutive, an end is recorded under the mutex before it is told. `BridgeInvariant`.
- `PanesShowTheirPath` from `RunsFit` (each effect has at most one run that is not
  cancelled, and it asked for the host and path of now) and `ClicksFit` (what a patient
  user clicked is the only thing under way). `AnswersFitTheQuestion`, for any user, from `AsksFit`
  (refs name requests of their own kind that were made), `SuggestionFits` and
  `StreamFits` (but for the requests that went astray, what can still answer is what the
  ref has, and is of this tab and line). `SettingsBelongTogether` from `FormFits` and
  `SaveFits` (the form has the id of the record it was hydrated from, a save that was
  sent updates this record or makes one) and `RecordFits` (what a save has done so far).
- `TabsInvariant`: the positions of the tab list, and the connects that are not
  answered, are such that a live connect has its tab to itself, and every PTY is in a
  tab, on its way to one, named in a close that waits, or displaced. With it,
  `AgentsInvariant` and `PipesInvariant`, `NothingIsLeft`: a call that ended after its
  listeners were registered has wiped its key.

*`ProcessProofs`*, for any set of parts, any number of tabs, operations, tunnels and
sign-outs:

- `ProcessesStayReachable`, the property on which a sign-out of the desktop client
  rests. It is far from inductive; `TabsInvariant`, `SentInvariant`,
  `TransfersInvariant` and `TunnelsInvariant` together are. *Sent*: what each part can
  add to the queue of the main thread (lemmas `Sends` and `Same`), and that a start of a
  tunnel is in it at most once, for the call that waits for it; without that, a tunnel
  could be opened after it was closed. *Transfers*: the command of a transfer comes before its cancel and the event
  of its start before that of its end. *Tunnels*: the page waits for
  the status that it asked for (`StatusFits`); for the patient user nothing is stopped
  while something starts; a start is registered before its command is sent
  (`StartRegistered`), and stays so until a stop, which is answered before the row goes
  (`StopsAnswered`), or until the page takes its tunnel for idle; so each running tunnel
  that was not forgotten is known or being closed (`UpIsKnown`). The set of tunnels is finite
  (`TunnelAssumption`), since a sign-out lists the commands that close them.
- `FinishedIsFinal`, an action property: no event or answer that is still on its way
  concerns a transfer that has ended otherwise.
- `TheEditorAgrees` from `EditorInvariant`. A credential has one host, whatever was
  opened or saved meanwhile, and a submission that makes a new one makes it for nobody
  else (`OwnersFit`, `FormsFit`); the one operation of the shell is the one its
  submission waits for, so that a dialog that cannot be closed will end (`ShellFits`,
  `DialogEnds`); for the user who waits, the dialog is about the host in the editor
  (`DialogFits`), and the list that the page shows of a host's credentials is the
  server's, the ids that a submission is going to delete are all of them, and after its
  save all but the one it saved (`HostsFit`). For the hasty user neither holds: a second
  submission deletes from an older list.
- `TypesHold`: `TypeOK` of `Workspace`. Most of it is part of the invariants above;
  cached lists, prompts, pieces and owners of transfers have lemmas of their own
  (`CacheTypes`, `PromptTypes`, `PipesBounded`, `OwnersTyped`).
- `TheLatestChoiceCounts`: `LatestChoiceCounts`, all five parts, each under its own
  condition (section 3).

Assumptions: placeholders are none of the values (`NoneAssumption`, which in
`TeamVault` also keeps requests apart from none, `NoTokenAssumption`,
`WebAssumption`), bounds are numbers, requests are finite (`RequestAssumption`), some
records can refer to each other (`LayoutsAssumption`), there is a host and a key
(`HostKeysAssumption`), and those named above; each is in the module that declares the
constant, and TLC evaluates it on every run.

Only model-checked:

- liveness: `RequestsFinish`, `ProcessesSettle`, `RecordsSettle`; fairness and ENABLED
  are out of the prover's reach;
- `RowsMeanEntries`: what a recursive conversion computes for every name needs induction
  over data. TLC enumerates the names, dates and base paths of the alphabet completely.

## 5. Plan

1. An abstract specification of what the shell promises for a process (opened, closed
   or ended once), implemented by `TerminalTabs` and `Transfers`.
2. `SyncCursor`: stamps against commits.
3. `VaultLocks`: the lock order of vault writes, rotation, refresh, suspension and team
   removals (`users`, `refresh_tokens`, `teams`): which cycles exist.

## 6. Not modelled

- The sync feed (planned above), audit rows, limiters, appearance, snippets, the
  website and the design drafts in `.ai/`: state that no other component's correctness
  depends on. Cryptography is ideal. The API client is stateless but for the bearer,
  which is in `ClientSession`.
- Of the backend: throttles and e-mail, instance-wide permissions in `TeamVault`,
  `refresh()` of the auth store, which nothing calls.
- Of the client: what a terminal prints, is sent and how it is resized; errors of
  `close()`; `clear()` of the transfers; the local pane
  and the path bar; deleting a host, groups, search and the key check of the host editor.

Hazards that no property covers:

- `TeamService.php:98` and `:252`, `auth.ts:203`,
  `VaultSyncController.php:67`, `use-host-key-gate.ts:87`, `pty.rs:148`,
  `TunnelsPage.tsx:222`: states read before a wait, each harmless in what was
  modelled or not modelled;
- the events of a transfer are heard by nobody once the SFTP page is left
  (`useTransferEvents.ts:46`); a second connect of a tab while the first waits, a
  sign-out during a connect (`use-terminal-actions.ts:72`) and a tunnel whose status is
  read before its start (`TunnelsPage.tsx:127`) lose a process (section 3); an
  `ssh_connect` under way when the app exits outlives
  `close_all_sessions` (`pty.rs:223`); what was prepared for a tunnel is kept until its
  status is read (`ssh_session.rs:4`); on Windows a key file younger than six minutes is
  not swept at the next start;
- names of teams, decrypted under `['teams', userId]`, are not purged by a lock
  (`stores/vault.ts:186`); session approvals and an open question about a host key
  survive a sign-out; a later replacement by another device loses to this session's
  approval; `hostSession()` does not wipe the private key when `createSshToken` fails;
- a second submit, or a retry after a failed credential save, creates a second host
  (`HostsPage.tsx:255`); forms of the panel save stale fields
  (`test_editing_other_fields_does_not_touch_suspension_or_sessions` says otherwise);
- an aborted load of the inline suggestion leaves "loading…" (`LateAnswersAreDropped`
  allows it); closing the AI panel does not abort, and opening it again sends the same
  prompt (`AskAiPanel.tsx:13-17`); the `finally` of an aborted stream clears the state of
  a newer one;
- the remote pane, when one navigates during a removal, shows the old directory under the
  new path; a refresh never clears an error; deselecting while resolving leaves
  `resolvingHost`;
- `ssh_key_test` and `ssh_key_install` are commands of the main thread, and the test has
  no deadline over all;
- web SSH: between the issue of a token and its use, and during a session, suspension and
  permissions are not looked at again; the client's own web path passes no fingerprint,
  so that the proxy ends with `host_key_unknown`.
