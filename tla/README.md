# lmail in TLA+

lmail is a command-line mail tool: several processes, one SQLite file, and a
directory with RSA keys per user. There is no server. Everything that can go
wrong between users, or between two sessions of one user, goes wrong in the
database file, in the directory, or in what a process remembers of them. This
directory has a model of each of these, TLC runs on small instances, and TLAPS
proofs about the sessions on the database, the key directory, the cyphering and the
command line.

Paths below are relative to `src/src/`.

## 1. The system

| Component | State | Operations | Module |
|---|---|---|---|
| Database (`storage.hpp`, `db/`) | tables `users`, `messages`, AUTOINCREMENT counters | the queries and statements of the commands | `LmailTypes`, `Storage` |
| Accounts and sessions (`cmd_register`, `cmd_login`, `cmd_logout`, `cmd_quit`, `logged_user.hpp`) | who is logged in, as a copy of a row | register, login with its greeting, logout, quit | `Mail` |
| Inbox (`inbox.hpp`, `cmd_inbox`, `cmd_readmsg`, `cmd_rmmsg`) | a deque of copies of messages, addressed by position | sync, find, erase, show | `Inbox`, `InboxSync`, `Mail` |
| Sending (`cmd_sendmsg`) | the message being put together | topic, body, cypher?, send?, INSERT | `Mail` |
| Key directory (`profile.hpp`, `utility.hpp`, `application.hpp`, `cmd_key*`, `cmd_rmkey*`) | `.keys/<name>.key/{key,key.pub}`, links `.assocs/<peer>.key`, `cypher/<peer>.pub` | keygen, keyassoc, keyimp, keyexp, rmkey, rmkeyassoc, rmkeyimp | `Keyring`, `Keychain`, `Correspondence` |
| Cyphering (`crypt.hpp`) | none | encrypt, decrypt | `Crypt` |
| Command line (`cli*`, `readline*`, `uread.hpp`, `states/`) | state machine, state object, lister of the completion, echo of the terminal | the loop of prompts, the questions of the commands | `Cli`, `Session` |
| Listings, help, colours | none | print | only what `lskeys` says of the user's own keys: `Correspondence` |
| Build files, configuration, empty schema | | | not modelled (the empty schema is `StorageInit`) |

How they interact: the command line parses a line with the current state object
and executes a command to its end in the only thread of the process; a command
asks its questions on the same terminal, calls the storage (each statement is a
transaction of its own, the connection is not kept between statements), changes the inbox
of its `LoggedUser`, and looks into the key directory. `login` and `logout` feed
events into the state machine, whose entry actions exchange the state object and,
for `login`, list the inbox. Processes meet in the database file and in the directories only, without locks
between statements or system calls.

What is hard, and which properties speak of it, is listed under "hazards" in
`PROJECT.json`: stale copies and shifting positions in the inbox, commands that
work in several steps and fail between them, questions that end because the input
does, two sessions of one user, kills between two system calls, and the lengths of
big integers.

What makes each component correct:

- database: a name and an id denote one row, ids are never used twice;
- inbox: an entry is a true copy of its message or the message is gone, no
  message twice, a position never denotes something that was not listed, a
  listing has all there is;
- sessions: nothing of one user is left for the next;
- sending: the mark "cyphered" is true, nothing is sent without a yes (both fail),
  and a message has an addressee who is registered and is not its sender;
- key directory: an association leads to a key, the halves of a pair match, a key is
  never replaced, a user can read a peer's messages until the association is
  taken away, and the key for a letter is there until the user deletes it;
- cyphering: what was encrypted is decrypted (fails), a key that got lost on the way is
  refused and never yields another text, nothing is read behind the end;
- command line: its three views agree, no event is lost, the terminal echoes
  again after a password, it ends.

## 2. The modules

`LmailTypes` has the data. A text is a model value with a mark of the key it is
cyphered for; ids are numbers, since AUTOINCREMENT and "newer than" are.

`Storage` has the tables as sets of rows and one operator per statement. A
statement is atomic, which SQLite guarantees; an INSERT whose UNIQUE or foreign key
condition fails changes nothing.

`Inbox` has the operations of class `Inbox` as operators on sequences.
`sync(records)` is one operator, `Syncs`, because nothing happens in between; the
query has no ORDER BY, so it yields a set of results, one for each order of the
new rows. `InboxSync` has the loop itself, row by row, and checks that `Syncs`
describes its outcome.

`Mail` composes them: sessions, each at a point of a command, on one database.

| Command | Actions |
|---|---|
| start, quit, kill | `Start`, `Exit` (at every point) |
| register | `Register` (the INSERT; its questions change nothing) |
| login | `Login`, then `ListInbox` or `GreetingFails` as the greeting |
| logout | `Logout` |
| inbox | `ListInbox` |
| readmsg | `ReadMsg`, or `ReadRemovedMsg` when the row is gone |
| rmmsg | `RmMsg` (the entry), then `RmMsgStored` or `RmMsgFails` (the row) |
| sendmsg | `SendMsg`, `WriteMsg`, `LeavePlain` or `CypherMsg`, `ConfirmMsg`, `InsertMsg`; `AbandonMsg` on every way out |

A command that ends without a change is a stuttering step. `listed` is what is on
the user's screen, the only variable without a counterpart in the program's memory.

`Postbox` is what the whole promises, without positions, steps of commands and
accounts: post, look, put away, dispose. `MailPostbox` has the refinement mapping;
`ImplementsPostbox` says that every step of `Mail` is a step of `Postbox` or none.

`Keyring` has the directory of one user, and the commands of several sessions of
that user as sequences of single looks and changes. `GiveUp` ends a command after any
of them: a refusal, an error, a kill. `rmkey` looks at a link (`Look`, `read_symlink()`) and removes
whatever link has that name by then (`RemoveLink`, `fs::remove()`), one after another; `keyimp`
looks for a key of the peer (`LookForImport`), `fs::copy_file()` makes the file (`CreateImport`), and fills
it (`FillImport`). Without an option to overwrite, `copy_file()` creates exclusively (`O_CREAT | O_EXCL` in libstdc++) and
so fails on a name that is taken by then. A value of `cypher` that is a session is a file which
that session has made and not filled, or not before it was killed. Coarser than single calls
are three things, in which a session that is alive acts at once: creating and writing a file of a key
pair (a kill between the two is `SaveTorn`), the look of `keyassoc` at the name and the creation of the link,
which fails on a name that is taken anyway, and the lookup of `rmkeyassoc` and its `read_symlink()`, which both
come before its question. A link is a value of its own and may lead nowhere, as on disk:
whether `exists()` follows it makes no difference for `keyassoc`, since
`create_directory_symlink()` fails on a name that is taken.
That a peer is not the user, that names are not empty, and the syntax of paths are left out.

`Keychain` is what a user with one session may rely on in that directory, without files,
questions and steps of commands: a name is taken, a new secret is kept under it, its public half
is offered and given away, a peer gets the key of a name in use, and what is under a name is lost
only while it is no peer's. `KeyringKeychain` has the refinement mapping, which forgets
files without content (half a key pair, an import that was not filled), and counts a pair as spent from the moment in which no command can save
it any more; `ImplementsKeychain` is the refinement. A kill within `keygen` is `Waste` or an
offer that is never made, a kill within `rmkey` a loss that stops half-way. A secret may be lost
before or after its public half, as `remove_all()` finds them: `Offer` needs the secret, `Publish` does not.

`Correspondence` composes `Keyring` with the letters of the peers. A peer cyphers with
a public key that was once exported (`exported` of `Keyring`), and never hears what became of
it; a letter stays cyphered in the database, and each time it is shown, `cypher_params()` and
`fetch_priv_key()` look up the key that is associated with its sender *then*. `Shown` is
what `show()` and `show_topic()` print: the text, something else, or the advice to check the keys.
A text that is decrypted with the key it was cyphered for is taken to come out right here; that one
in about 128 does not is what `Crypt` shows.
`LsKeys` is what `lskeys` lists of the user's own keys. The letters that were removed stay in
`post`: what holds for them held for those that are left. The variable `lost` is a history, the
private halves that `rmkey` has deleted.

`Cli` has one process: the transition table, the entry actions, the offered commands
and the questions of each command, with an end of input at any read. Arguments
settle questions beforehand. What commands do is left to the other modules;
`Fail` stands for every reason why a command ends once it knows its arguments. The
questions for passwords (`login`, and twice in `register`) are read by `uread_hidden()`, which
switches the echo of the terminal off (`Hide`), reads, and restores it in the step in which the
reading ends, whichever way it does. `Kill` ends the process anywhere, and the terminal
stays as it is then, also without its echo: the code has no handler of signals.

`Session` is what a user may rely on, without the state machine, the state object, the
questions and the terminal: one command at a time, begun only while it is on offer; `login` and
`logout` alone change what is on offer; after `quit` there is nothing. `ImplementsSession`
is the refinement; `where` is "off" before `run()` and after the end.

`Crypt` has `encrypt()` and `decrypt()` with bytes of four values, blocks of two
bytes, and a modulus of 10, which is as short as a block is and so below some of them
(`Crypt_full`), or of 33 (`Crypt_leading_zero`). AES is a toy cipher; CFB mode, the encoding of
integers, the lengths, and the exceptions are those of the code. A length takes one byte, not
two, and is cut to it like the `uint16_t` of `push_size()` (`Pushed`). A vector shorter than
a block is read with anything behind it. `Receive` gives `decrypt()` a text that `encrypt()`
never made, which happens in the program whenever a message is wrongly marked.

`MCMail`, `MCKeyring` and `MCCorrespondence` (with the mapping of `KeyringKeychain`) add the symmetry for TLC. Operators whose comment begins
with "Mutated form" are not used by any specification; each is the body of another
definition with a plausible slip, and replacing the one by the other makes the
run in question fail (`PROJECT.json`, "mutants").

## 3. The runs

| Run | Instance | Shows |
|---|---|---|
| `Mail_reading` | 2 sessions, 2 users, 2 messages, no keys | types, accounts, inboxes, listings, positions, and the refinement of `Postbox`, under all interleavings |
| `Mail_alone` | 1 session, 2 users, 3 messages, 1 key | longer inboxes, half-cyphered texts, and the inductive invariant `MailInv` of the proofs |
| `Mail_marked` | 1 session, 1 message, 1 key | violation: marked as cyphered, stored in the clear |
| `Mail_unanswered` | 1 session, 1 message | violation: sent without an answer |
| `InboxSync` | 4 ids, all inboxes, all row orders | the loop does what `Syncs` says; the summary counts are true |
| `Correspondence` | 1 session, 2 keys, 2 peers, 3 pairs, 1 letter | associations, pairs, and the readability of letters, with kills at any point, and failures of every call but `fs::remove()` of a link; the refinement of `Keychain`; the inductive invariant `LetterInv` of the proofs |
| `Keyring_shared` | 2 sessions, 2 keys, 1 peer, 2 pairs, 2 files to import, links that resist removal | what survives concurrency: types, and what becomes of the file of an imported key |
| `Keyring_race_keygen` | 2 sessions | violation: a private key is overwritten |
| `Keyring_race_unlink` | 2 sessions | violation: an association is taken away that nobody was asked about |
| `Cli` | one process, all commands | agreement, no lost event, the echo, the refinement of `Session`, termination |
| `Crypt_full` | all keys, vectors and texts of the instance, all other texts of 5 bytes | round trip of full blocks that the modulus exceeds, bounded damage, a lost key is refused, reads within the text |
| `Crypt_leading_zero` | the same with a longer modulus | violation: leading zero bytes |

Why the bounds are enough. Messages interact only by their positions in one
inbox and by their ids; two in two sessions give every race of listing, reading
and removing, and three in one session give an entry with neighbours on both
sides. Two users are a sender and an addressee, in both roles; a session can be
used by one after the other. Ids are not bounded otherwise, and removed messages
count against `MaxMessages`, so that reuse of ids would show (and the mutant that reuses them
is found). In the key directory two names and two peers give a link that is to be
removed and one that is not; three pairs let a name be generated, removed and
generated again; two files to import, in two sessions, tell which of two `keyimp` for one peer filled
the file. `Correspondence` has no files to import, which no letter depends
on: imports are in `Keyring_shared`, and in the proof of `KeychainImplemented`. One letter is enough, since letters do not act on one another and it is any one
of them. The bounds `MaxUsers`, `MaxMessages`, `MaxPairs` and `MaxPost` stand in the guards of
`Register`, `InsertMsg`, `MakeKeyDir` and `Send`, `MaxId` in `Init` of `InboxSync`; the runs check deadlock except where the process may end (`Cli`,
`Crypt`, `InboxSync`).

Where properties hold only under a condition:

- `NoDanglingAssoc` needs one session and links that can be removed. With two
  sessions, `keyassoc` can link to a key that `rmkey` has already looked for; and
  `rmkey` ignores that `fs::remove()` of a link fails (`cmd_rmkey.hpp:68`). Setting
  `Sessions = {s1, s2}` or `UnlinkMayFail = TRUE` in `Correspondence.cfg` shows either. `ReadableUntilUnlinked`,
  `LettersStayReadable` and `ImplementsKeychain` need the same.
- `KeyNeverReplaced`, `PairsMatch` and `LettersNotOrphaned` need one session.
- `UnlinkedAsNamed` needs one session. `rmkeyassoc` tells its user of a key, waits for the answer and
  removes what is there then (`Keyring_race_unlink`); `rmkey` likewise between `read_symlink()` and
  `fs::remove()` (`cmd_rmkey.hpp:64`, 68): with `arg[s].key = assocs[p]` in `Unlinking` asked of `rmkey` only,
  that run finds this one. It does not need links that can be removed.
- `RoundTripOfFullBlocks`, `DamageInFirstBlock` and `RefusedOrRight` speak of keys and vectors
  that are below the modulus (`Fits`). `keygen` accepts 128 bits (`application.hpp:99`), the size of a block,
  and `ApplyFunction()` reduces what is not below the modulus. `Crypt_full` has such a
  modulus, so that both sides of the condition occur; without `Fits` its run fails.
  They also need `LengthsFit`: that no integer below the modulus has more bytes than a length can
  tell. The code checks no such thing, but it takes a modulus of more than 524,280 bits to break
  it. In `Crypt_full` it holds; with `Base = 3`, `N = 15` it does not, and the run fails.
- `EchoUnlessHidden` speaks of a process that is alive.

Fairness is stated in `Cli` only, the one module with liveness. The thread is
scheduled, so a step that waits for nobody happens (`Run`, `Hide`, `Exec`), and a read of a closed
terminal returns, each time. Nobody is assumed to type, to answer, to close
the terminal, or to kill the process. `Mail` and `Keyring` have none: any session may stop anywhere.

## 4. What disagrees with the code's own words

`PROJECT.json` "findings" quotes the lines. In short: a failed encryption still marks the
message as cyphered; the end of input at "Send the message?" sends it;
two sessions can generate one key name over each
other; `rmkeyassoc` removes another association than the one it asked about, if another session has
replaced it meanwhile; one encrypted text in about 128 cannot be decrypted (a zero byte in front of
the key or the vector), against the assertion of the unit test.

## 5. What is proved

`InboxTheorems` has lemmas on the operators of `Inbox`: what `Erase` and the
results of `Syncs` contain, in terms of ids and entries. `MailProofs` proves, for every number of
sessions, users, texts, keys and every bound:

- `MailCorrect`: `Spec => []MailInv`, and from its parts `Types`, `Accounts`,
  `Faithfulness`, `NoDuplicates`, `Unmarked`, `AddressCorrect`;
- `Positions`: `InboxWithinListing`, from what erasing and refreshing do to positions;
- `Listings`: the action property `ListingComplete`.

`MailPostboxProofs` proves `Implementation`: every behaviour of the sessions is, through
the mapping of `MailPostbox`, one of `Postbox`.

The assumptions are those of `LmailTypes` and `Mail`: the empty text is no text,
no key is no key, no user is no user.

The argument. `InboxFaithful` alone is not inductive, for three reasons, one per
layer of `MailInv` (its fourth, `AddressInv`, is about what `sendmsg` has found out before its
questions and relies on after them). (1) An entry is compared with a row, so both must be well
formed, and a row is inserted from a draft: `TypeInv` says what a draft has at each
point (`DraftsWritten`). (2) An entry is filled from a join by id, so that an id
must denote one message and one sender, and a new row must not get an id that some
inbox still has: `StorageInv` bounds ids by the counters (`IdsGivenOut`) and keeps
senders stored. (3) An entry survives a logout unless the session is clean, and must have an id
already given out, lest a later message take it over: `SessionsClean`. Each layer is
proved from the ones before by one step per action. `ListingComplete` then follows
from `MailInv` and the lemmas on `Syncs`. For the refinement, each action is mapped to its step
of `Postbox` or to none; what makes it work is that a session looks with the name of its user,
posts with the row of its user, and that an entry at a position is the only one with its id
(`InboxNoDuplicates`), so that erasing a position is putting away an id.

`InboxSyncProofs` closes the gap that `Syncs` leaves, for inboxes and results of any size:
`LoopIsSyncs` says that the loop of `sync()` ends with one of the results of `Syncs`,
`LoopCounts` that the two numbers of the summary are true. The invariant `LoopInv` is that after
each record the inbox is what `Syncs` makes of the records so far; its one step, `PlacedStep`,
splits on whether the id is known.

`KeyringTheorems` proves, for all names, peers, files, and every number of pairs:

- for any number of sessions: `KeyringTypes` and `ImportedKeysStay`. `TypeOK`
  needs `KnownByThen`: what a command saves or exports was made or named before. That of several
  `keyimp` for one peer only the one that made the file fills it rests on the exclusive
  creation, not on their looks;
- for one session (`\A s, t \in Sessions : s = t`): `HalvesBelongTogether` and
  `KeysNotReplaced`, from `PairsInv`. `keygen` looks once and acts later, so the
  invariant says at each point what is under the name meanwhile: nothing, then
  nothing but what this command has put there;
- for one session, also where links cannot be removed: `AssociationsGoAsNamed`, from `NamedInv`, which says
  that the link that a command is about to remove still leads to the key that it has named;
- for one session and links that can be removed (`~UnlinkMayFail`): `AssociationsLead`, from
  `LinksInv`, and `ReadableTillTheEnd`, from both. The loop of `rmkey` has the invariant that
  the links to the key are among those it has still to look at or is about to remove, so that there is
  none when the key goes;
- under the same conditions, `KeychainImplemented`: the refinement of `Keychain`. Each action is
  mapped to its step of the keychain or to none, with the invariant `KeychainInv`: `PairsInv`,
  which says that `keygen` finds nothing under its name at each of its steps, `LinksInv`, which
  says that `rmkey` deletes what is no peer's, and `Generated`, that a pair about to be saved was
  generated and is not yet spent.

`CorrespondenceTheorems` has the same names, and any number of letters: `NoOrphans`, for one
session, from `LetterInv`: `keygen` saves the private half first, so that every public half
that a peer can have got has its private one in the directory, unless `rmkey` deleted it;
`ReadLettersStay`, for one session and links that can be removed, adds that an association
neither changes its key nor leads to a key of another pair.

The conditions are needed, as `Keyring_race_keygen` and section 3 show.

`CliTheorems` proves the safety properties of `Cli` (`CliTypes`, `PromptsAgree`, `EventsHandled`,
`TerminalRestored`) and the refinement `SessionImplemented`. The invariant `CliInv` says that the
three views agree whenever the machine is in one of its two states, and that a
command in progress was offered by the current state object; `EchoInv` that the echo is off
only while a password is read or after a kill.

`CryptTheorems` proves, for every size of a byte, of a block and of the modulus, every
pair of exponents that are inverse to one another, and texts of every length:

- `NothingReadBehindTheEnd`: `ReadsWithin`, for whatever text `decrypt()` is given;
- under `LengthsFit`: `RoundTripHolds`, `DamageContained` and `NeverAnotherText`, that is
  `RoundTripOfFullBlocks`, `DamageInFirstBlock` and `RefusedOrRight`.

What makes this possible is induction as a statement about sets: every set of numbers has a
least one (`Least`, from the library's `WFMin`), so that a set with 0 and with i for each i - 1 has
all of `0..n` (`Upwards`). With it, each function that `Crypt` defines by recursion is shown to
exist (`Recursion`) and to have the values its equation says: `WeightOf`, `PowerBelow`, `ValueOf`. Of these
follow the facts that the code relies on without saying so: an integer is the value of its
bytes (`ValueOfEncoded`); a block is the bytes of its value if these are as many as it has, and they
are if it does not begin with a zero byte (`EncodedValue`); a byte of the cyphered text depends on the
bytes before it only, and behind the first block not on the vector (`KeystreamReads`), so that
decyphering undoes cyphering, and with another vector does so behind the first block
(`CfbDecrypted`); and the parts of a cyphered text lie where `pop_integer()` looks (`PartsOf`). The
invariant `CryptInv` has two parts. `Consumed`, with the types, holds for all texts. `ReadsBack` follows a
text of `encrypt()` through the steps of `decrypt()`: how much has been consumed at each, that the
integers are those that went in, and that in the end the key was refused, which only happens to one
that begins with a zero byte, or the text was decyphered with the key that was drawn, and with the
vector that was drawn if it survived.

Only model-checked: the liveness of `Cli` (`EndsWithInput`, `QuitEnds`), which needs fairness; and
the five violations, each of which is one behaviour.

## 6. Not modelled, and what could follow

- The listings `lsusers` and `help`, colours, wording: they print and change nothing.
- The configuration file, the location of the database, the build.
- Names with a structure: `keyassoc` and `keyimp` strip everything up to the last slash of what they
  are given, the lookups do not.
- `create_dir_if_doesnt_exist()` looks three times at a directory that another session may be
  making; a command that fails there is a case of `GiveUp`.
- The size of a key: `keygen` reads it as a `size_t`, checks the minimum and hands it on; the
  generator narrows it to an `unsigned int`.
- The buffers of `std::cin` and the readline library, when the input is no terminal.
- The DER form of key files, the wiping of memory.

Next would be a composition of `Mail` with `Correspondence`, in which the letters are the rows of the
database: it would show nothing about messages that the two do not, since a row is never changed
once it is stored, but it would say in one specification what `readmsg` shows after everything
that two users can do to their keys.
