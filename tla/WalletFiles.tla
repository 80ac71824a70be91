---------------------------- MODULE WalletFiles ----------------------------
(***************************************************************************)
(* What a wallet keeps on disk (wallet2: generate, load, store,            *)
(* change_password, rewrite) and the table of its own addresses, which is  *)
(* only in the cache file.  The keys file holds the account and the        *)
(* lookahead, the cache file everything else; both are encrypted with the  *)
(* password.  A file is written under the name *.new and renamed over the  *)
(* old one.  The process may die between two system calls, and a write or  *)
(* a rename may fail.                                                      *)
(***************************************************************************)
EXTENDS Integers, Sequences

CONSTANTS
    Passwords,
    Lookaheads,     \* values of both subaddress lookaheads that are tried
    MaxIndex,       \* bound on the accounts and addresses that are used
    MaxFileEvents   \* bound on crashes, failed calls and changed settings

\* set_subaddress_lookahead throws for 0.
ASSUME LookaheadsAssumption == Lookaheads \subseteq Nat \ {0}

VARIABLES
    files,          \* "keys", "keys.new", "cache", "cache.new" -> content
    purse,          \* the open wallet, or NoPurse
    steps,          \* the operation that runs and how far it is, or FilesIdle
    torn,           \* a password change was interrupted
    fileEvents      \* crashes, failed calls and changed settings so far

fileVars == <<files, purse, steps, torn, fileEvents>>

FileEvent == fileEvents < MaxFileEvents /\ fileEvents' = fileEvents + 1

-----------------------------------------------------------------------------
(* The address table.  labels[a] is how many addresses of account a are    *)
(* named, rows the indices the scan recognises (m_subaddresses).           *)

EmptyBook == [labels |-> <<>>, rows |-> {}]

Labelled(book, a) == IF a < Len(book.labels) THEN book.labels[a + 1] ELSE 0

\* Mutant: a known account is extended only up to the address in use.
ExpandToUsed(book, look, i) ==
    LET n == Len(book.labels)
    IN  IF n <= i.major
        THEN [labels |-> [a \in 1 .. i.major + 1 |->
                            IF a <= n THEN book.labels[a]
                            ELSE IF a = i.major + 1 THEN i.minor + 1 ELSE 0],
              rows   |-> book.rows
                            \cup [major : n .. i.major + look - 1, minor : 0 .. look - 1]]
        ELSE [labels |-> [book.labels EXCEPT ![i.major + 1] = i.minor + 1],
              rows   |-> book.rows \cup {i}]

\* expand_subaddresses.  Accounts and addresses count from 0.
ExpandSubaddresses(book, look, i) ==
    LET n == Len(book.labels)
    IN  IF n <= i.major
        THEN [labels |-> [a \in 1 .. i.major + 1 |->
                            IF a <= n THEN book.labels[a]
                            ELSE IF a = i.major + 1 THEN i.minor + 1 ELSE 0],
              rows   |-> book.rows
                            \cup [major : n .. i.major + look - 1, minor : 0 .. look - 1]
                            \cup [major : {i.major}, minor : 0 .. i.minor + look - 1]]
        ELSE IF book.labels[i.major + 1] <= i.minor
        THEN [labels |-> [book.labels EXCEPT ![i.major + 1] = i.minor + 1],
              rows   |-> book.rows \cup [major : {i.major},
                            minor : book.labels[i.major + 1] .. i.minor + look - 1]]
        ELSE book

\* should_expand.  For an account with no labels, nsub - 1 wraps around and
\* any minor index passes.
ShouldExpand(book, look, i) ==
    /\ i.major <= Len(book.labels) + look - 1
    /\ Labelled(book, i.major) = 0 \/ i.minor <= Labelled(book, i.major) + look - 1

-----------------------------------------------------------------------------
(* Files.                                                                  *)

Absent    == [st |-> "absent"]
Partial   == [st |-> "partial"]
Keys(pw, look)  == [st |-> "whole", pw |-> pw, look |-> look]
Cache(pw, book) == [st |-> "whole", pw |-> pw, book |-> book]

NoPurse == [open |-> FALSE]

\* m_cache_key, the table and the lookahead of an open wallet.
Purse(pw, look, book) == [open |-> TRUE, pw |-> pw, look |-> look, book |-> book]

FilesIdle == [what |-> "idle"]

\* The files that an operation saves one after the other, with store_keys and
\* the same-file branch of store_to.
Saves(what) ==
    CASE what = "generate" -> <<"keys", "cache", "keys">>
      [] what = "change_password" -> <<"keys", "cache">>
      [] what = "rewrite" -> <<"keys">>
      [] OTHER -> <<"cache">>

\* An operation begins, with the password that it encrypts with.
Doing(what, pw) == [what |-> what, pw |-> pw, at |-> 1, written |-> FALSE]

Saving(s) == Saves(s.what)[s.at]

New(file) == IF file = "keys" THEN "keys.new" ELSE "cache.new"

-----------------------------------------------------------------------------
FilesInit ==
    /\ files = [f \in {"keys", "keys.new", "cache", "cache.new"} |-> Absent]
    /\ purse = NoPurse
    /\ steps = FilesIdle
    /\ torn = FALSE
    /\ fileEvents = 0

Ready == purse.open /\ steps = FilesIdle

\* generate: refuses to overwrite; the keys file comes first, then the
\* table's first account, then the cache.  simple_wallet::init rewrites the
\* keys file after it.
Generate(pw, look) ==
    /\ ~ purse.open
    /\ files["keys"] = Absent /\ files["cache"] = Absent
    /\ purse' = Purse(pw, look, ExpandSubaddresses(EmptyBook, look, [major |-> 0, minor |-> 0]))
    /\ steps' = Doing("generate", pw)
    /\ UNCHANGED <<files, torn, fileEvents>>

\* load.  Without a cache file the table stays empty; with one that cannot
\* be decrypted the public keys differ and the load throws.
Load(pw) ==
    /\ ~ purse.open
    /\ files["keys"].st = "whole" /\ files["keys"].pw = pw
    /\ \/ /\ files["cache"] = Absent
          /\ purse' = Purse(pw, files["keys"].look, EmptyBook)
       \/ /\ files["cache"].st = "whole" /\ files["cache"].pw = pw
          /\ purse' = Purse(pw, files["keys"].look, files["cache"].book)
    /\ UNCHANGED <<files, steps, torn, fileEvents>>

\* store().
Store ==
    /\ Ready
    /\ steps' = Doing("store", purse.pw)
    /\ UNCHANGED <<files, purse, torn, fileEvents>>

\* close_wallet stores before the wallet is dropped; a failed store is only
\* reported.
CloseWallet ==
    /\ Ready
    /\ steps' = Doing("close", purse.pw)
    /\ UNCHANGED <<files, purse, torn, fileEvents>>

\* change_password: the new cache key is set before anything is written.
ChangePassword(new) ==
    /\ Ready /\ files["keys"].st = "whole" /\ new # files["keys"].pw
    /\ purse' = [purse EXCEPT !.pw = new]
    /\ steps' = Doing("change_password", new)
    /\ FileEvent
    /\ UNCHANGED <<files, torn>>

\* set_subaddress_lookahead and rewrite with the password that the keys file
\* was verified with.  The table is not extended.
SetSubaddressLookahead(look) ==
    /\ Ready /\ files["keys"].st = "whole"
    /\ purse' = [purse EXCEPT !.look = look]
    /\ steps' = Doing("rewrite", files["keys"].pw)
    /\ FileEvent
    /\ UNCHANGED <<files, torn>>

\* add_subaddress_account.
AddSubaddressAccount ==
    /\ Ready /\ Len(purse.book.labels) <= MaxIndex
    /\ purse' = [purse EXCEPT !.book =
                   ExpandSubaddresses(@, purse.look, [major |-> Len(@.labels), minor |-> 0])]
    /\ UNCHANGED <<files, steps, torn, fileEvents>>

\* add_subaddress; an account that does not exist throws.
AddSubaddress(a) ==
    /\ Ready /\ a < Len(purse.book.labels) /\ Labelled(purse.book, a) <= MaxIndex
    /\ purse' = [purse EXCEPT !.book =
                   ExpandSubaddresses(@, purse.look, [major |-> a, minor |-> Labelled(@, a)])]
    /\ UNCHANGED <<files, steps, torn, fileEvents>>

\* process_new_transaction finds an output to a row of the table.
ReceiveAt(i) ==
    /\ Ready /\ i \in purse.book.rows /\ i.major <= MaxIndex /\ i.minor <= MaxIndex
    /\ ShouldExpand(purse.book, purse.look, i)
    /\ purse' = [purse EXCEPT !.book = ExpandSubaddresses(@, purse.look, i)]
    /\ UNCHANGED <<files, steps, torn, fileEvents>>

\* rescan_blockchain(hard): clear and setup_new_blockchain.
RescanHard ==
    /\ Ready
    /\ purse' = [purse EXCEPT !.book =
                   ExpandSubaddresses(EmptyBook, purse.look, [major |-> 0, minor |-> 0])]
    /\ UNCHANGED <<files, steps, torn, fileEvents>>

\* The content goes to *.new.
WriteNew ==
    /\ steps # FilesIdle /\ ~steps.written
    /\ files' = [files EXCEPT ![New(Saving(steps))] =
                    IF Saving(steps) = "keys" THEN Keys(steps.pw, purse.look)
                                              ELSE Cache(steps.pw, purse.book)]
    /\ steps' = [steps EXCEPT !.written = TRUE]
    /\ UNCHANGED <<purse, torn, fileEvents>>

\* replace_file; the operation goes on to its next file or returns.
ReplaceFile ==
    /\ steps # FilesIdle /\ steps.written
    /\ files' = [files EXCEPT ![Saving(steps)] = files[New(Saving(steps))],
                              ![New(Saving(steps))] = Absent]
    /\ IF steps.at = Len(Saves(steps.what))
       THEN /\ steps' = FilesIdle
            /\ purse' = IF steps.what = "close" THEN NoPurse ELSE purse
       ELSE /\ steps' = [steps EXCEPT !.at = @ + 1, !.written = FALSE]
            /\ UNCHANGED purse
    /\ UNCHANGED <<torn, fileEvents>>

Interrupted == torn' = (torn \/ steps.what = "change_password")

\* A failed call throws out of the operation; a failed write leaves a partial
\* *.new, a failed rename of the keys file removes it.  The wallet stays
\* open, except that a failed generate or close ends the program.
CallFails ==
    /\ steps # FilesIdle
    /\ files' = IF ~steps.written THEN [files EXCEPT ![New(Saving(steps))] = Partial]
                ELSE IF Saving(steps) = "keys" THEN [files EXCEPT !["keys.new"] = Absent]
                ELSE files
    /\ purse' = IF steps.what \in {"generate", "close"} THEN NoPurse ELSE purse
    /\ steps' = FilesIdle
    /\ Interrupted /\ FileEvent

\* The process dies, in the middle of a write or between two calls.
Crash ==
    /\ purse.open
    /\ \/ UNCHANGED files
       \/ /\ steps # FilesIdle /\ ~steps.written
          /\ files' = [files EXCEPT ![New(Saving(steps))] = Partial]
    /\ purse' = NoPurse
    /\ steps' = FilesIdle
    /\ Interrupted /\ FileEvent

FilesNext ==
    \/ \E pw \in Passwords :
          \/ \E look \in Lookaheads : Generate(pw, look)
          \/ Load(pw) \/ ChangePassword(pw)
    \/ \E look \in Lookaheads : SetSubaddressLookahead(look)
    \/ \E a \in 0 .. MaxIndex : AddSubaddress(a)
    \/ purse.open /\ \E i \in purse.book.rows : ReceiveAt(i)
    \/ Store \/ CloseWallet \/ AddSubaddressAccount \/ RescanHard
    \/ WriteNew \/ ReplaceFile \/ CallFails \/ Crash

FilesSpec == FilesInit /\ [][FilesNext]_fileVars

-----------------------------------------------------------------------------
\* Properties

\* Once there is a keys file there always is a whole one: no crash and no
\* failed call costs the user the account (store_keys writes *.new first).
KeysSurvive ==
    /\ files["keys"].st # "partial"
    /\ files["cache"] # Absent => files["keys"].st = "whole"

\* The two files open with one password, unless a password change was
\* interrupted between them (change_password, store_to).
CacheOpens ==
    (steps = FilesIdle /\ ~ torn /\ files["cache"] # Absent) =>
        /\ files["cache"].st = "whole"
        /\ files["cache"].pw = files["keys"].pw

\* The scan recognises every address that was handed out, and the next ones
\* of each account (at least as many as the smallest lookahead), without a
\* gap, whatever the order in which lookaheads change, addresses are added
\* and outputs arrive (expand_subaddresses, should_expand).
BookHolds(book) ==
    /\ \A a \in 0 .. Len(book.labels) - 1 : \E look \in Lookaheads :
          \A m \in 0 .. book.labels[a + 1] + look - 2 : [major |-> a, minor |-> m] \in book.rows
    /\ \A i \in book.rows : i.minor > 0 => [major |-> i.major, minor |-> i.minor - 1] \in book.rows

WindowHolds == purse.open => BookHolds(purse.book)

\* The wallet's files and its table of addresses survive crashes and failed calls.
FilesSound == KeysSurvive /\ CacheOpens /\ WindowHolds

=============================================================================
