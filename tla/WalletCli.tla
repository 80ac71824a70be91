----------------------------- MODULE WalletCli -----------------------------
(***************************************************************************)
(* The command line wallet (wallet/cli: simple_wallet), from the options   *)
(* it is started with to the store at its end.  The wallet behind it is    *)
(* what its commands use of wallet2: files with an account, settings, the  *)
(* accounts' labels, the transfers that a scan of the chain finds and the  *)
(* own ones that are not mined yet.  The user answers prompts as they      *)
(* like, the daemon may be away at each call, a file may not be written,   *)
(* and a signal may come at any time.                                      *)
(***************************************************************************)
EXTENDS Integers, Sequences, FiniteSets, TLC, SequencesExt, FiniteSetsExt

CONSTANTS
    Sessions,     \* [options, disk, lines]: what is on disk, and what is typed
    NumberWord,   \* word -> the number that get_xtype_from_string reads
    AmountWord,   \* word -> the amount that parse_amount reads
    AddressWords, \* the words get_account_address_from_str accepts
    IndexWord,    \* "index=..." -> the indices, {} when one does not parse
    TxidWord,     \* word -> the transaction that it names
    PairWord,     \* "a:b" -> <<a, b>>
    OnChain,      \* the transfers that a scan finds
    InMempool,    \* the payments in the daemon's pool
    Guesses,      \* what an empty optional may hold
    MaxSplit      \* bound on the transactions of one payment

VARIABLE shell

\* A transfer: [id, kind, major, minors, height, time, amount, spent].
Tip == Max({0} \cup {e.height : e \in OnChain})

\* An optional value is a set with at most one member.
Some(v) == {v}
Nothing == {}

-----------------------------------------------------------------------------
\* Words

PriorityStrings == <<"default", "unimportant", "normal", "elevated", "priority">>

ParsePriority(w) == {i - 1 : i \in {j \in DOMAIN PriorityStrings : PriorityStrings[j] = w}}

ParseBool(w) ==
    CASE w \in {"1", "y", "Y", "yes", "true"} -> Some(TRUE)
      [] w \in {"0", "n", "N", "no", "false"} -> Some(FALSE)
      [] OTHER -> Nothing

ParseNumber(w) == IF w \in DOMAIN NumberWord THEN Some(NumberWord[w]) ELSE Nothing

ParseUnit(w) ==
    CASE w = "memero" -> Some(11) [] w = "millimero" -> Some(8)
      [] w = "micromero" -> Some(5) [] w = "nanomero" -> Some(2)
      [] w = "picomero" -> Some(0) [] OTHER -> Nothing

\* set_default_priority: a name, or a number from 0 to 4.
ParseDefaultPriority(w) == ParsePriority(w) \cup (ParseNumber(w) \cap 0 .. 4)

\* A lookahead of 0 makes set_subaddress_lookahead throw.
ParseLookahead(w) ==
    {p \in (IF w \in DOMAIN PairWord THEN Some(PairWord[w]) ELSE Nothing) : p[1] > 0 /\ p[2] > 0}

IsIndexWord(args) == args # <<>> /\ Head(args) \in DOMAIN IndexWord

-----------------------------------------------------------------------------
\* Settings

Switches == {"always-confirm-transfers", "store-tx-info", "merge-destinations",
             "confirm-export-overwrite", "ignore-fractional-outputs"}

\* These are parsed before the password is asked for.
ParsedFirst == {"priority", "unit"}

Settings == Switches \cup ParsedFirst \cup {"refresh-from-block-height", "subaddress-lookahead"}

NewValue(name, w) ==
    CASE name \in Switches -> ParseBool(w)
      [] name = "priority" -> ParseDefaultPriority(w)
      [] name = "unit" -> ParseUnit(w)
      [] name = "subaddress-lookahead" -> ParseLookahead(w)
      [] OTHER -> ParseNumber(w)

DefaultSettings ==
    [n \in Settings |->
        CASE n = "priority" -> 0 [] n = "unit" -> 11 [] n = "refresh-from-block-height" -> 0
          [] n = "subaddress-lookahead" -> <<16, 512>>
          [] OTHER -> n # "merge-destinations"]

-----------------------------------------------------------------------------
\* Transfers: what get_payments, get_payments_out, get_unconfirmed_payments and
\* get_unconfirmed_payments_out pick for the account that is selected.

Confirmed(e) == e.kind \in {"in", "block", "out"}

OfAccount(entries, account, minors) ==
    {e \in entries : e.major = account /\ (minors = {} \/ e.minors \cap minors # {})}

Kinds(w) ==
    CASE w \in {"in", "incoming"} -> {"in", "block", "pool"}
      [] w \in {"out", "outgoing"} -> {"out", "pending", "failed"}
      [] w = "pending" -> {"pending", "pool"}
      [] w = "failed" -> {"failed"}
      [] w = "pool" -> {"pool"}
      [] w = "coinbase" -> {"block"}
      [] w \in {"all", "both"} -> {"in", "block", "out", "pool", "pending", "failed"}
      [] OTHER -> {}

\* The arguments of show, taken one after the other.  What is left over is ignored.
ShowRequest(args) ==
    LET named == args # <<>> /\ Kinds(Head(args)) # {}
        rest1 == IF named THEN Tail(args) ELSE args
        rest2 == IF IsIndexWord(rest1) THEN Tail(rest1) ELSE rest1
        given == {i \in {1, 2} : i <= Len(rest2) /\ \A j \in 1 .. i : rest2[j] \notin DOMAIN IndexWord}
        height(i, default) == IF i \in given THEN NumberWord[rest2[i]] ELSE default
    IN  IF \/ Len(args) > 4
           \/ IsIndexWord(rest1) /\ IndexWord[Head(rest1)] = {}
           \/ \E i \in given : rest2[i] \notin DOMAIN NumberWord
        THEN Nothing
        ELSE Some([kinds  |-> Kinds(IF named THEN Head(args) ELSE "all"),
                   minors |-> IF IsIndexWord(rest1) THEN IndexWord[Head(rest1)] ELSE {},
                   low    |-> height(1, 0), high |-> height(2, Tip)])

\* get_transfers without its sort.
GetTransfers(req, entries, account) ==
    {e \in OfAccount(entries, account, req.minors) :
        e.kind \in req.kinds /\ (Confirmed(e) => req.low < e.height /\ e.height <= req.high)}

\* Heights come before words; the words in the order of the alphabet.
BlockRank(e) == CASE Confirmed(e) -> e.height [] e.kind = "failed" -> Tip + 1
              [] e.kind = "pending" -> Tip + 2 [] OTHER -> Tip + 3

Before(a, b) ==
    \/ Confirmed(a) /\ ~Confirmed(b)
    \/ BlockRank(a) < BlockRank(b)
    \/ BlockRank(a) = BlockRank(b) /\ a.time < b.time

SortTransfers(S) == SetToSortSeq(S, Before)

\* show_incoming lists outputs, spent or not.
IncomingRequest(args) ==
    LET filter == args # <<>> /\ Head(args) \in {"available", "unavailable"}
        rest1 == IF filter THEN Tail(args) ELSE args
        wordy == Max({i \in 0 .. Len(rest1) : \A j \in 1 .. i : rest1[j] = "verbose"})
        rest2 == SubSeq(rest1, wordy + 1, Len(rest1))
    IN  IF \/ Len(args) > 3
           \/ Len(rest2) > 1
           \/ rest2 # <<>> /\ (~IsIndexWord(rest2) \/ IndexWord[Head(rest2)] = {})
        THEN Nothing
        ELSE Some([spent  |-> IF ~filter THEN BOOLEAN ELSE {Head(args) = "unavailable"},
                   minors |-> IF rest2 # <<>> THEN IndexWord[Head(rest2)] ELSE {}])

Incoming(req, entries, account) ==
    {e \in OfAccount(entries, account, req.minors) :
        e.kind \in {"in", "block"} /\ e.spent \in req.spent}

\* Outputs that are not spent, and the change that is under way (a pending
\* transfer's amount).
BalanceOf(entries, account) ==
    MapThenSumSet(LAMBDA e : e.amount,
        {e \in entries : e.major = account /\
            (e.kind = "pending" \/ (e.kind \in {"in", "block"} /\ ~e.spent))})

\* show_tx looks through the payments, the outgoing ones, the pool and the
\* outgoing ones that are not mined, and stops at the first.
FindTx(id, entries, account) ==
    LET named(ks) == {e \in OfAccount(entries, account, {}) : e.id = id /\ e.kind \in ks}
        first(a, b) == IF a # {} THEN a ELSE b
    IN  first(first(named({"in", "block"}), named({"out"})),
              first(named({"pool"}), named({"pending", "failed"})))

-----------------------------------------------------------------------------
\* The wallet

\* expand_subaddresses for each output that is found: how many addresses each
\* account has.
Named(labels, found) ==
    [a \in 1 .. Max({Len(labels)} \cup {e.major + 1 : e \in found}) |->
        Max({IF a <= Len(labels) THEN labels[a] ELSE 0} \cup
            UNION {{m + 1 : m \in e.minors} : e \in {f \in found : f.major = a - 1}})]

\* rescan_blockchain; clear_soft keeps the labels.
Reset(s, how) ==
    CASE how = "hard" -> [s EXCEPT !.scanned = {}, !.unmined = {}, !.labels = <<1>>,
                                   !.lost = (@ \/ s.account > 0)]
      [] how = "soft" -> [s EXCEPT !.scanned = {}, !.unmined = {}]
      [] OTHER -> s

\* refresh up to a height.  Without a table of addresses nothing is recognised;
\* a transfer of the wallet's own that is found is no longer unmined.
Refreshed(s, height) ==
    LET found == IF s.labels = <<>> THEN {} ELSE {e \in OnChain : e.height <= height}
    IN  [s EXCEPT !.scanned = @ \cup found,
                  !.unmined = {e \in @ : \A f \in found : f.id # e.id},
                  !.labels = Named(@, {e \in found : e.kind \in {"in", "block"}})]

\* refresh_main: no connection, or a refresh that ends at some height, by an
\* exception, a signal or because it is done.
RefreshMain(s, how) ==
    {s} \cup {Refreshed(Reset(s, how), h) : h \in 0 .. Tip}

AddAccount(s) == [s EXCEPT !.labels = Append(@, 1), !.account = Len(s.labels), !.lost = FALSE]

\* add_subaddress throws for an account that does not exist.
AddAddress(s) ==
    IF s.account < Len(s.labels) THEN [s EXCEPT !.labels[s.account + 1] = @ + 1] ELSE s

AllEntries(s, reachable) == s.scanned \cup s.unmined \cup (IF reachable THEN InMempool ELSE {})

-----------------------------------------------------------------------------
\* Starting: simple_wallet::init

NoFile == [secret |-> "", labels |-> <<>>, cached |-> FALSE, settings |-> DefaultSettings, unmined |-> {}]

Exists(disk, name) == disk[name].secret # "" \/ disk[name].cached

Blank == [at |-> "init", file |-> "", disk |-> <<>>, secret |-> "", settings |-> DefaultSettings,
          account |-> 0, labels |-> <<>>, scanned |-> {}, unmined |-> {}, lost |-> FALSE,
          command |-> <<>>, count |-> 0, left |-> 0, of |-> 0, plan |-> <<>>, agreed |-> {},
          sent |-> <<>>, raw |-> <<>>, kept |-> {}, said |-> [what |-> ""], running |-> TRUE, eof |-> FALSE,
          unsaved |-> FALSE, unstored |-> FALSE, session |-> <<>>]

ShellInit == \E s \in Sessions : shell = [Blank EXCEPT !.session = s, !.disk = s.disk]

\* ask_wallet_create_if_needed: the name that is opened or generated.
AskWallet(disk, o) ==
    IF \/ o.typed = ""
       \/ Exists(disk, o.typed) /\ (o.restore \/ disk[o.typed].secret = "")
    THEN Nothing
    ELSE Some(IF Exists(disk, o.typed) THEN [o EXCEPT !.open = o.typed] ELSE [o EXCEPT !.new = o.typed])

\* The options that are left after the first tests of init, if it goes on.
Resolved(disk, o) ==
    LET chosen == {f \in {"open", "new", "fromKey"} : o[f] # ""}
    IN  IF Cardinality(chosen) > 1 THEN Nothing
        ELSE IF chosen = {} THEN AskWallet(disk, o) ELSE Some(o)

\* new_wallet: never over a file.  The key that is typed for --generate-from-spend-key
\* is not used: the account is the one of m_recovery_key.
NewWallet(s, name, secret) ==
    IF Exists(s.disk, name) THEN Nothing
    ELSE Some([s EXCEPT !.file = name, !.secret = secret, !.labels = <<1>>,
                        !.disk[name] = [NoFile EXCEPT !.secret = secret, !.labels = <<1>>, !.cached = TRUE]])

OpenWallet(s, name) ==
    IF s.disk[name].secret = "" THEN Nothing
    ELSE Some([s EXCEPT !.file = name, !.secret = s.disk[name].secret,
                        !.settings = s.disk[name].settings,
                        !.labels = IF s.disk[name].cached THEN s.disk[name].labels ELSE <<>>,
                        !.unmined = IF s.disk[name].cached THEN s.disk[name].unmined ELSE {}])

Started(s, o) ==
    IF o.new # "" \/ o.restore \/ o.fromKey # ""
    THEN IF \/ o.lookahead = "bad"
            \/ o.restore /\ (o.open # "" \/ o.seed # "good")
            \/ o.fromKey # "" /\ o.key = ""
         THEN Nothing
         ELSE NewWallet(s, IF o.fromKey # "" THEN o.fromKey ELSE o.new,
                        IF o.restore THEN "seed" ELSE IF o.fromKey # "" THEN "recovery" ELSE "fresh")
    ELSE IF o.lookahead # "" THEN Nothing ELSE OpenWallet(s, o.open)

\* main and run: a wrong or missing password ends the program as well; the first
\* refresh comes before the first prompt.
Start(password) ==
    /\ shell.at = "init"
    /\ LET ok == IF password # "right" THEN {}
                 ELSE UNION {Started(shell, o) : o \in Resolved(shell.disk, shell.session.options)}
       IN  \/ ok = {} /\ shell' = [shell EXCEPT !.at = "failed"]
           \/ \E s \in ok : \E r \in RefreshMain(s, "none") : shell' = [r EXCEPT !.at = "prompt"]

-----------------------------------------------------------------------------
\* The loop of async_console_handler::run: a command is done at once or waits for
\* an answer.

Finished(s, said) == [s EXCEPT !.at = "prompt", !.said = said]
Tells(s, w) == Finished(s, [what |-> w])
Waits(s, at) == [s EXCEPT !.at = at]

\* Commands that only print what the wallet or the daemon has.
PrintSecret(s, name) == Tells(s, name)
Help(s) == Tells(s, "help")
Mining(s, reachable) == Tells(s, IF reachable THEN "daemon" ELSE "no connection")
Status(s, reachable) == Tells(s, IF reachable THEN "status" ELSE "no connection")

\* set_variable and its members, up to the password.
SetVariable(s, args) ==
    IF Len(args) < 2 \/ args[1] \notin Settings THEN Tells(s, "settings")
    ELSE IF args[1] \in ParsedFirst /\ NewValue(args[1], args[2]) = Nothing THEN Tells(s, "invalid")
    ELSE Waits(s, "password")

PasswordCommand(s) == Waits(s, "password")

AccountCommand(s, args) ==
    LET n == IF Len(args) >= 2 THEN ParseNumber(args[2]) ELSE Nothing
    IN  CASE args = <<>> -> Tells(s, "accounts")
          [] args # <<>> /\ args[1] = "new" -> Tells(AddAccount(s), "accounts")
          [] Len(args) = 2 /\ args[1] = "switch" ->
                IF \E i \in n : i < Len(s.labels)
                THEN Tells([s EXCEPT !.account = CHOOSE i \in n : TRUE, !.lost = FALSE], "balance")
                ELSE Tells(s, "invalid")
          [] Len(args) >= 2 /\ args[1] = "label" ->
                Tells(s, IF \E i \in n : i < Len(s.labels) THEN "accounts" ELSE "invalid")
          [] OTHER -> Tells(s, "usage")

\* The addresses that print_address shows; print_address_sub needs no label.
AddressCommand(s, args) ==
    LET size == IF s.account < Len(s.labels) THEN s.labels[s.account + 1] ELSE 0
        bounds == {NumberWord[args[i]] : i \in {j \in 1 .. Len(args) : args[j] \in DOMAIN NumberWord}}
    IN  CASE args = <<>> -> Finished(s, [what |-> "addresses", shown |-> {0}])
          [] args = <<"all">> -> Finished(s, [what |-> "addresses", shown |-> 0 .. size - 1])
          [] args # <<>> /\ args[1] = "new" -> Tells(AddAddress(s), "address")
          [] Len(args) \in {1, 2} /\ args[1] \in DOMAIN NumberWord ->
                IF (Len(args) = 2 /\ args[2] \notin DOMAIN NumberWord) \/ Min(bounds) >= size
                THEN Tells(s, "invalid")
                ELSE Finished(s, [what |-> "addresses", shown |-> Min(bounds) .. Min({Max(bounds), size - 1})])
          [] args # <<>> /\ args[1] \in {"label", "device", "one-off"} ->
                Finished(s, [what |-> "addresses",
                         shown |-> IF args[1] = "one-off" THEN {} ELSE {b \in bounds : b < size}])
          [] OTHER -> Tells(s, "usage")

\* show reads the pool; without the daemon the pool's payments are left out.
ShowTransfers(s, args, reachable) ==
    IF ShowRequest(args) = Nothing THEN Tells(s, "invalid")
    ELSE LET req == CHOOSE r \in ShowRequest(args) : TRUE
         IN  Finished(s, [what |-> "list", req |-> req, reachable |-> reachable, account |-> s.account,
                      list |-> SortTransfers(GetTransfers(req, AllEntries(s, reachable), s.account))])

ShowIncoming(s, args) ==
    IF IncomingRequest(args) = Nothing THEN Tells(s, "usage")
    ELSE LET req == CHOOSE r \in IncomingRequest(args) : TRUE
         IN  Finished(s, [what |-> "incoming", shown |-> Incoming(req, s.scanned, s.account)])

ShowTransaction(s, args, reachable) ==
    IF Len(args) # 1 \/ args[1] \notin DOMAIN TxidWord THEN Tells(s, "invalid")
    ELSE Finished(s, [what |-> "tx", id |-> TxidWord[args[1]], reachable |-> reachable,
                  found |-> FindTx(TxidWord[args[1]], AllEntries(s, reachable), s.account)])

ShowBalance(s, args) ==
    IF args \notin {<<>>, <<"detail">>} THEN Tells(s, "usage")
    ELSE Finished(s, [what |-> "balance", amount |-> BalanceOf(s.scanned \cup s.unmined, s.account)])

\* A hard rescan asks first.
Rescan(s, args) ==
    CASE args = <<>> -> RefreshMain(Tells(s, "rescanned"), "soft")
      [] args # <<>> /\ args[1] = "hard" -> {Waits(s, "rescan")}
      [] OTHER -> {Tells(s, "usage")}

\* transfer_main: the arguments that are left once the priority has been taken.  An
\* empty optional is read: the first word may be dropped.
AfterPriority(args) ==
    LET p == ParsePriority(Head(args))
    IN  IF p = Nothing THEN {args, Tail(args)} ELSE IF p = {0} THEN {args} ELSE {Tail(args)}

\* Pairs of an address and an amount.  An amount that does not parse is
\* reported, and then read all the same.
DestinationsOf(args, guess) ==
    LET n == Len(args) \div 2
        amount(i) == IF args[2 * i] \in DOMAIN AmountWord THEN AmountWord[args[2 * i]] ELSE guess
    IN  IF \/ Len(args) = 0
           \/ Len(args) % 2 = 1
           \/ \E i \in 1 .. n : args[2 * i - 1] \notin AddressWords \/ amount(i) = 0
        THEN Nothing
        ELSE Some([i \in 1 .. n |-> [to |-> args[2 * i - 1], amount |-> amount(i)]])

\* Mutant: only a payment of several transactions is confirmed.
AsksForSplit(s, n) == n > 1

AsksFirst(s, n) == s.settings["always-confirm-transfers"] \/ n > 1

\* handle_transfer_exception: every exception is reported, and nothing more is sent.
TransferFailed(s) == Tells([s EXCEPT !.left = 0], "failed")

\* process_ring_members may fail, which the console takes for an unknown command.
ProcessRingMembers(s, next) == {Tells(s, "unknown command"), next}

\* create_transactions throws, finds nothing, or gives transactions; then the rings
\* are looked at and the user is asked, unless neither is needed.
Created(s, dests) ==
    {TransferFailed(s)} \cup
    UNION {IF ~AsksFirst(s, n)
           THEN {[s EXCEPT !.at = "commit", !.left = n, !.of = n, !.plan = dests]}
           ELSE ProcessRingMembers(s, [s EXCEPT !.at = "confirm", !.left = n, !.of = n, !.plan = dests]) :
           n \in 1 .. MaxSplit}

TransferCommand(s, args) ==
    LET rest == IF IsIndexWord(args) THEN Tail(args) ELSE args
    IN  IF args = <<>> \/ (IsIndexWord(args) /\ IndexWord[Head(args)] = {}) THEN {Tells(s, "invalid")}
        ELSE IF rest = <<>> THEN {Tells(s, "invalid"), [s EXCEPT !.at = "crashed"]}
        ELSE UNION {UNION {IF DestinationsOf(r, g) = Nothing THEN {Tells(s, "invalid")}
                           ELSE UNION {Created(s, d) : d \in DestinationsOf(r, g)} : g \in Guesses} :
                    r \in AfterPriority(rest)}

\* process_command_vec with the table of the constructor: the outcomes of a line.
Handled(s, line, reachable) ==
    LET name == IF line = <<>> THEN "" ELSE line[1]
        args == IF line = <<>> THEN <<>> ELSE Tail(line)
    IN  CASE name = "" -> {s}
          [] name = "set" -> {SetVariable(s, args)}
          [] name = "password" -> {PasswordCommand(s)}
          [] name = "account" -> {AccountCommand(s, args)}
          [] name = "address" -> {AddressCommand(s, args)}
          [] name = "show" -> {ShowTransfers(s, args, reachable)}
          [] name = "in" -> {ShowIncoming(s, args)}
          [] name = "tx" -> {ShowTransaction(s, args, reachable)}
          [] name = "balance" -> {ShowBalance(s, args)}
          [] name = "refresh" -> RefreshMain(Tells(s, "refreshed"), "none")
          [] name = "rescan" -> Rescan(s, args)
          [] name = "transfer" ->
                IF reachable THEN TransferCommand(s, args) ELSE {Tells(s, "no connection")}
          [] name \in {"start-mining", "stop-mining"} -> {Mining(s, reachable)}
          [] name = "status" -> {Status(s, reachable)}
          [] name \in {"view-key", "spend-key", "seed"} -> {PrintSecret(s, name)}
          [] name \in {"version", "help"} -> {Help(s)}
          [] OTHER -> {IF line \in {<<"exit">>, <<"q">>} THEN Waits(s, "leaving") ELSE Tells(s, "unknown")}

Lines(s) == s.session.lines

ReadLine(reachable) ==
    /\ shell.at = "prompt" /\ shell.running /\ ~shell.eof
    /\ shell.count < Len(Lines(shell))
    /\ \E s \in Handled([shell EXCEPT !.count = @ + 1, !.kept = {},
                                      !.command = Lines(shell)[shell.count + 1]],
                        Lines(shell)[shell.count + 1], reachable) : shell' = s

\* rewrite: the keys file gets every setting of the wallet in memory.
Rewrite(s) == [s EXCEPT !.disk[s.file].settings = s.settings, !.unsaved = FALSE]

\* get_and_verify_password and the rest of a setter.  Memory is changed before the
\* file is, and stays so when the file cannot be written.
Password(answer, written) ==
    /\ shell.at = "password"
    /\ LET line == shell.command
           value == IF line[1] = "set" THEN NewValue(line[2], line[3]) ELSE Nothing
       IN  IF answer # "right" \/ value = Nothing THEN shell' = Tells(shell, "invalid")
           ELSE LET s == [shell EXCEPT !.settings[line[2]] = CHOOSE v \in value : TRUE, !.unsaved = TRUE]
                IN  shell' = Tells(IF written THEN Rewrite(s) ELSE s, "set")

\* rescan hard goes on at the end of the input.
ConfirmRescan(answer) ==
    /\ shell.at = "rescan"
    /\ IF answer = "no" THEN shell' = Tells(shell, "cancelled")
       ELSE \E s \in RefreshMain(Tells([shell EXCEPT !.eof = (answer = "eof")], "rescanned"), "hard") :
               shell' = s

ConfirmTransfer(answer) ==
    /\ shell.at = "confirm"
    /\ shell' = IF answer = "yes"
                THEN [shell EXCEPT !.at = "commit", !.agreed = @ \cup {shell.count}]
                ELSE Tells([shell EXCEPT !.eof = (answer = "eof"), !.left = 0], "cancelled")

\* commit_or_save: one transaction from the back.  A commit that throws leaves the
\* others unsent; the daemon may have the transaction although its answer was lost.
Pending(s) == [id |-> 100 + 10 * s.count + s.left, kind |-> "pending", major |-> s.account,
               minors |-> {0}, height |-> 0, time |-> 90 + s.count, amount |-> 0, spent |-> FALSE]

Popped(s) == IF s.left = 1 THEN Tells([s EXCEPT !.left = 0], "sent") ELSE [s EXCEPT !.left = @ - 1]

Sending(s) == [s EXCEPT !.sent = Append(@, [count |-> s.count, tx |-> s.left, plan |-> s.plan,
                                            command |-> s.command, of |-> s.of,
                                            always |-> s.settings["always-confirm-transfers"]])]

CommitTx(result) ==
    /\ shell.at = "commit" /\ ~shell.session.options.noRelay
    /\ shell' = CASE result = "ok" -> Popped([Sending(shell) EXCEPT !.unmined = @ \cup {Pending(shell)}])
                  [] result = "lost" -> TransferFailed(Sending(shell))
                  [] OTHER -> TransferFailed(shell)

\* --do-not-relay: raw_memero_tx, numbered but for the last.
RawName(s) == IF s.left = 1 THEN -1 ELSE s.of - s.left

SaveTx(written) ==
    /\ shell.at = "commit" /\ shell.session.options.noRelay
    /\ shell' = Popped(IF written THEN [shell EXCEPT !.raw = (RawName(shell) :> <<shell.count, shell.left>>) @@ @,
                                                    !.kept = @ \cup {<<shell.count, shell.left>>}]
                             ELSE shell)

\* SIGINT and SIGTERM stop the loop; while a password is typed they are ignored.
Signal ==
    /\ shell.at \notin {"init", "failed", "ended", "crashed", "password"} /\ shell.running
    /\ shell' = [shell EXCEPT !.running = FALSE]

\* The loop ends; deinit stores the wallet.
Leave(stored) ==
    /\ \/ shell.at = "leaving"
       \/ shell.at = "prompt" /\ (~shell.running \/ shell.eof \/ shell.count = Len(Lines(shell)))
    /\ shell' = IF stored
                THEN [shell EXCEPT !.at = "ended", !.disk[shell.file].labels = shell.labels,
                                   !.disk[shell.file].unmined = shell.unmined,
                                   !.disk[shell.file].cached = TRUE]
                ELSE [shell EXCEPT !.at = "ended", !.unstored = TRUE]

ShellNext ==
    \/ \E a \in {"right", "wrong"} : Start(a)
    \/ \E reachable \in BOOLEAN : ReadLine(reachable)
    \/ \E a \in {"right", "wrong"}, w \in BOOLEAN : Password(a, w)
    \/ \E a \in {"yes", "no", "eof"} : ConfirmRescan(a) \/ ConfirmTransfer(a)
    \/ \E r \in {"ok", "lost", "rejected"} : CommitTx(r)
    \/ \E w \in BOOLEAN : SaveTx(w) \/ Leave(w)
    \/ Signal

-----------------------------------------------------------------------------
\* Properties

\* A transaction goes to the daemon once, pays what was typed to whom it was typed
\* for, and was agreed to when it had to be, whatever the value of an optional
\* that is read while it is empty (transfer_main, commit_or_save).  An amount
\* that does not parse is not covered: it is reported, and then used.
SentAsTyped ==
    \A k \in DOMAIN shell.sent :
        LET x == shell.sent[k]
            first == Len(x.command) - 2 * Len(x.plan)
        IN  /\ x.count \in shell.agreed \/ (x.of = 1 /\ ~x.always)
            /\ \A j \in DOMAIN shell.sent : j # k =>
                  <<shell.sent[j].count, shell.sent[j].tx>> # <<x.count, x.tx>>
            /\ \A i \in DOMAIN x.plan :
                  /\ x.plan[i].to = x.command[first + 2 * i - 1]
                  /\ x.command[first + 2 * i] \in DOMAIN AmountWord =>
                        x.plan[i].amount = AmountWord[x.command[first + 2 * i]]
            /\ \A i \in 2 .. first : x.command[i] \in DOMAIN IndexWord \cup Range(PriorityStrings)

\* With --do-not-relay each transaction of the last payment that was reported as
\* saved is in a file of its own (commit_or_save).
RawKept == shell.kept \subseteq Range(shell.raw)

\* No start of the program and no command touches another wallet's files or
\* puts another account into a keys file that was there; the account is the one
\* the options name (init, ask_wallet_create_if_needed, new_wallet, open_wallet).
NothingOverwritten ==
    /\ \A name \in DOMAIN shell.disk :
          /\ name # shell.file => shell.disk[name] = shell.session.disk[name]
          /\ Exists(shell.session.disk, name) => shell.disk[name].secret = shell.session.disk[name].secret
    /\ shell.file # "" =>
          shell.secret = IF Exists(shell.session.disk, shell.file)
                         THEN shell.session.disk[shell.file].secret
                         ELSE IF shell.session.options.restore THEN "seed"
                         ELSE IF shell.session.options.fromKey # "" THEN "recovery" ELSE "fresh"

\* The keys file has the settings that are in force, but after a rewrite that
\* failed (the setters of simple_wallet, rewrite).
SettingsSaved ==
    shell.file # "" /\ ~shell.unsaved => shell.disk[shell.file].settings = shell.settings

\* Every output that was found belongs to an account and an address that are
\* listed, and the account that is selected exists; it may not after a hard
\* rescan, which does not select another, or when there was no cache.
AccountsCover ==
    /\ \A e \in shell.scanned : e.kind \in {"in", "block"} =>
          e.major < Len(shell.labels) /\ \A m \in e.minors : m < shell.labels[e.major + 1]
    /\ shell.file # "" /\ ~shell.lost /\ shell.labels # <<>> => shell.account < Len(shell.labels)

\* show lists each transfer of the account that was asked for once, the confirmed
\* ones first and by height, each group by time; tx finds what the account
\* knows, and the confirmed entry of it (get_transfers, show_tx).
ListingSound ==
    /\ shell.said.what = "list" =>
          LET q == shell.said.list
              known == {e \in AllEntries(shell, shell.said.reachable) : e.major = shell.account}
          IN  /\ Range(q) \subseteq known
              /\ \A i, j \in DOMAIN q : i < j =>
                    /\ q[i] # q[j]
                    /\ Confirmed(q[j]) => Confirmed(q[i]) /\ q[i].height <= q[j].height
                    /\ q[i].kind = q[j].kind /\ q[i].height = q[j].height => q[i].time <= q[j].time
              /\ \A e \in known \ Range(q) :
                    \/ e.kind \notin shell.said.req.kinds
                    \/ shell.said.req.minors # {} /\ shell.said.req.minors \cap e.minors = {}
                    \/ Confirmed(e) /\ e.height \notin shell.said.req.low + 1 .. shell.said.req.high
    /\ shell.said.what = "tx" =>
          LET known == {e \in AllEntries(shell, shell.said.reachable) : e.major = shell.account /\ e.id = shell.said.id}
          IN  /\ shell.said.found \subseteq known /\ (known # {} => shell.said.found # {})
              /\ (\E e \in known : Confirmed(e)) => \A e \in shell.said.found : Confirmed(e)

\* The program ends because it was asked to, and has then stored the wallet
\* unless the store failed (run, deinit, close_wallet).
EndsStored ==
    shell.at = "ended" =>
        /\ \/ ~shell.running \/ shell.eof \/ shell.command \in {<<"exit">>, <<"q">>}
           \/ shell.count = Len(Lines(shell))
        /\ ~shell.unstored => /\ shell.disk[shell.file].cached
                              /\ shell.disk[shell.file].labels = shell.labels
                              /\ shell.disk[shell.file].unmined = shell.unmined

\* The command line wallet does what was typed, once and with consent, keeps what
\* it has in memory and on disk together, and shows what there is.
CommandsSound ==
    /\ SentAsTyped /\ RawKept /\ NothingOverwritten /\ SettingsSaved
    /\ AccountsCover /\ ListingSound /\ EndsStored

=============================================================================
