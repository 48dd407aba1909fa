------------------------------- MODULE Deploy -------------------------------
(***************************************************************************)
(* deploy/scripts: deploy.sh (devnet and sepolia), reset-env.sh and        *)
(* upgrade.sh, run one after the other against one .env file and one       *)
(* chain.  A script is the list of what it still has to do (script.todo);  *)
(* `set -e' or an interruption ends it anywhere, and what it knew only in  *)
(* its shell variables (sh) is lost with it.                               *)
(***************************************************************************)
EXTENDS Naturals, Sequences, SequencesExt

CONSTANTS
  Pairs,      \* the yield tokens: nstSTRK, sSTRK, wstETH
  Selections, \* the argument of upgrade.sh's --contract, "" where it is not given
  Hexes,      \* the 0x strings in the messages of commands that fail
  MaxRuns,    \* runs of deploy.sh and upgrade.sh
  MaxVersion, \* versions of the contracts' source
  MaxMisread  \* names that are set from such a message, or left empty by a read

ASSUME DeployAssumption ==
  /\ IsFiniteSet(Pairs) /\ Hexes \subseteq Nat \ {0}
  /\ {MaxRuns, MaxVersion, MaxMisread} \subseteq Nat

VARIABLES
  env,        \* .env.<network>: [address, hash, expiry], 0 where unset
  sh,         \* the same names as the running script's variables
  contracts,  \* the chain: sequence of [kind, of, expiry, class, makes]: what it was
              \* deployed as and for, the <<class, version>> it runs, the versions
              \* a factory deploys; an address is an index
  declared,   \* the chain: set of <<class, version>>
  source,     \* version of the contracts' source
  script,     \* [name, todo, legacy, counted, recorded] of the script that runs
  runs,       \* runs of deploy.sh and upgrade.sh so far, which tell the time
  json,       \* deploy/addresses/<network>.json
  disturbed,  \* an interruption, a read that failed, a transaction that was executed
              \* though sncast did not say so, or a reset happened
  misread,    \* the names of .env that a failing command set, since the last reset:
              \* [address, hash]
  refused,    \* the user refused an upgrade
  ended       \* how the last script ended

deployVars == <<env, sh, contracts, declared, source, script, runs, json, disturbed,
                misread, refused, ended>>

NoPair == "-"
Core == <<"Factory", "MarketFactory", "Router", "RouterStatic", "PyLpOracle">>
Classes == <<"MockYieldToken", "PyLpOracle", "RouterStatic", "SY", "PT", "YT", "Market",
             "Factory", "MarketFactory", "Router">>

Keys == (Range(Core) \X {NoPair}) \cup ({"MockYieldToken", "SY", "PT", "YT", "Market"} \X Pairs)

\* reset-env.sh, COMMON_KEYS and DEVNET_ONLY_KEYS.
ResetKeys == {k \in Keys : k[1] \notin {"RouterStatic", "PyLpOracle"}}
ResetClasses == Range(Classes) \ {"RouterStatic", "PyLpOracle"}

Nothing == [address |-> [k \in Keys |-> 0], hash |-> [c \in Range(Classes) |-> 0], expiry |-> 0]

Idle == [name |-> "none", todo |-> <<>>, legacy |-> FALSE, counted |-> {}, recorded |-> FALSE]

\* One step of every pair, in the order of the script.
ForEach(step(_)) == LET ps == SetToSeq(Pairs) IN [i \in 1..Len(ps) |-> step(ps[i])]

-----------------------------------------------------------------------------
(* The texts of the scripts *)

Declare(c) == [op |-> "declare", class |-> c]
Deploy(key, of) == [op |-> "deploy", key |-> key, of |-> of]
Invoke(given, taken) == [op |-> "invoke", given |-> given, taken |-> taken]

deploy_core ==
  <<Deploy(<<"Factory", NoPair>>, {}),
    Deploy(<<"MarketFactory", NoPair>>, {<<"Factory", NoPair>>}),
    Deploy(<<"Router", NoPair>>, {}), Deploy(<<"RouterStatic", NoPair>>, {}),
    Deploy(<<"PyLpOracle", NoPair>>, {})>>

\* Mutant: a wrapper before what it wraps.
deploy_tokens_swapped ==
  ForEach(LAMBDA p : Deploy(<<"SY", p>>, {<<"MockYieldToken", p>>}))
  \o ForEach(LAMBDA p : Deploy(<<"MockYieldToken", p>>, {}))

deploy_tokens ==
  ForEach(LAMBDA p : Deploy(<<"MockYieldToken", p>>, {}))
  \o ForEach(LAMBDA p : Deploy(<<"SY", p>>, {<<"MockYieldToken", p>>}))

\* mint_shares(to, shares): an address and a u256, of two felts.
mint_to_recipient == ForEach(LAMBDA p : Invoke(3, 3))

create_pairs == ForEach(LAMBDA p : [op |-> "pair", pair |-> p])
create_markets == ForEach(LAMBDA p : [op |-> "market", pair |-> p])
seed_markets == ForEach(LAMBDA p : [op |-> "seed", pair |-> p])

\* mint_shares, approve, SY.deposit(receiver, token_in, amount, min_shares_out)
\* without the second felt of either amount, transfer, mint_py, approve,
\* approve, Market.mint.
seed_market_liquidity ==
  <<Invoke(3, 3), Invoke(3, 3), Invoke(4, 6), Invoke(3, 3), Invoke(2, 2),
    Invoke(3, 3), Invoke(3, 3), Invoke(5, 5)>>

deploy_sh ==
  <<[op |-> "declarations"]>> \o deploy_core \o deploy_tokens \o mint_to_recipient
  \o <<[op |-> "expiry"]>> \o create_pairs \o create_markets
  \o <<[op |-> "seeding"], [op |-> "export"]>>

UPGRADEABLE_CONTRACTS == <<"Factory", "MarketFactory", "Router", "SY", "PT", "YT", "Market">>

upgrade_sh(selected) ==
  [i \in 1..Len(UPGRADEABLE_CONTRACTS) |->
     [op |-> "check", class |-> UPGRADEABLE_CONTRACTS[i],
      wanted |-> selected \in {"", UPGRADEABLE_CONTRACTS[i]}]]
  \o <<[op |-> "summary"]>>

instance_addresses(c, new_hash) ==
  IF c \in Range(Core) THEN <<[op |-> "upgrade", key |-> <<c, NoPair>>, new |-> new_hash]>>
  ELSE ForEach(LAMBDA p : [op |-> "upgrade", key |-> <<c, p>>, new |-> new_hash])

-----------------------------------------------------------------------------
(* The shell *)

DeployInit ==
  /\ env = Nothing /\ sh = Nothing
  /\ contracts = <<>> /\ declared = {} /\ source = 1
  /\ script = Idle /\ runs = 0 /\ json = Nothing
  /\ disturbed = FALSE /\ misread = [address |-> {}, hash |-> {}]
  /\ refused = FALSE /\ ended = "well"

\* source "$ENV_FILE"
Start(name, todo) ==
  /\ script.name = "none" /\ runs < MaxRuns
  /\ runs' = runs + 1 /\ sh' = env /\ ended' = "running"
  \* Before bash 4.1, `((' and `))' around zero did not end a script under set -e.
  /\ \E legacy \in IF name = "upgrade" THEN BOOLEAN ELSE {FALSE} :
       script' = [Idle EXCEPT !.name = name, !.todo = todo, !.legacy = legacy]
  /\ UNCHANGED <<env, contracts, declared, source, json, disturbed, misread, refused>>

\* The head of todo is replaced by more.
Continue(more) ==
  /\ script' = [script EXCEPT !.todo = more \o Tail(@)]
  /\ ended' = ended
Stop(how) ==
  /\ script' = Idle /\ sh' = Nothing
  /\ ended' = how

Doing(op) == script.todo # <<>> /\ Head(script.todo).op = op
This == Head(script.todo)

\* A command fails without an effect, and the script ends.
Fails ==
  /\ \E op \in {"declare", "deploy", "create", "create_market", "invoke", "check"} : Doing(op)
  /\ Stop("stopped")
  /\ UNCHANGED <<env, contracts, declared, source, runs, json, disturbed, misread, refused>>

\* The machine, the terminal or the container goes away.
Interrupt ==
  /\ script.name # "none"
  /\ Stop("stopped") /\ disturbed' = TRUE
  /\ UNCHANGED <<env, contracts, declared, source, runs, json, misread, refused>>

\* A transaction was executed.  sncast says so and the script goes on; or it
\* fails all the same, or its answer has no "Contract Address:", and the script
\* ends.
Submitted(more) ==
  \/ Continue(more) /\ UNCHANGED <<sh, disturbed>>
  \/ Stop("stopped") /\ disturbed' = TRUE

Edit ==
  /\ script.name = "none" /\ source < MaxVersion
  /\ source' = source + 1
  /\ UNCHANGED <<env, sh, contracts, declared, script, runs, json, disturbed, misread, refused, ended>>

\* reset-env.sh
ResetEnv ==
  /\ script.name = "none" /\ env # Nothing
  /\ env' = [address |-> [k \in Keys |-> IF k \in ResetKeys THEN 0 ELSE env.address[k]],
             hash |-> [c \in Range(Classes) |-> IF c \in ResetClasses THEN 0 ELSE env.hash[c]],
             expiry |-> 0]
  /\ misread' = [address |-> misread.address \ ResetKeys, hash |-> misread.hash \ ResetClasses]
  /\ json' = Nothing /\ disturbed' = TRUE
  /\ UNCHANGED <<sh, contracts, declared, source, script, runs, ended, refused>>

-----------------------------------------------------------------------------
(* deploy.sh *)

Set(kind, p) == sh.address[<<kind, p>>] # 0

\* What is done already is skipped, and the seeding where SEED_LIQUIDITY is false.
Body(step, seeding) ==
  CASE step.op = "declarations" ->
         IF \A c \in Range(Classes) : sh.hash[c] # 0 THEN <<>>
         ELSE [i \in 1..Len(Classes) |-> Declare(Classes[i])]
    [] step.op = "pair" ->
         IF Set("PT", step.pair) THEN <<>>
         ELSE <<[op |-> "create", pair |-> step.pair],
                [op |-> "read", key |-> <<"PT", step.pair>>],
                [op |-> "read", key |-> <<"YT", step.pair>>]>>
    [] step.op = "market" ->
         IF Set("Market", step.pair) \/ ~Set("PT", step.pair) THEN <<>>
         ELSE <<[op |-> "create_market", pair |-> step.pair],
                [op |-> "read", key |-> <<"Market", step.pair>>]>>
    [] step.op = "seeding" -> IF seeding THEN seed_markets ELSE <<>>
    [] step.op = "seed" -> IF Set("Market", step.pair) THEN seed_market_liquidity ELSE <<>>

Expand ==
  /\ \E op \in {"declarations", "pair", "market", "seeding", "seed"} : Doing(op)
  /\ \E seeding \in BOOLEAN : Continue(Body(This, seeding))
  /\ UNCHANGED <<env, sh, contracts, declared, source, runs, json, disturbed, misread, refused>>

\* Mutant: only the shell variable is set.
update_env_lost(key, value) ==
  /\ env' = env
  /\ sh' = [sh EXCEPT !.address[key] = value]

\* update_env, with the shell variable of the same name.
update_env(key, value) ==
  /\ env' = [env EXCEPT !.address[key] = value]
  /\ sh' = [sh EXCEPT !.address[key] = value]

MayMisread == Cardinality(misread.address) + Cardinality(misread.hash) < MaxMisread

\* The first `class_hash: 0x...', or else the first 64 digits, of what sncast says.
Found(c, hash) ==
  /\ env' = [env EXCEPT !.hash[c] = hash]
  /\ sh' = [sh EXCEPT !.hash[c] = hash]
  /\ Continue(<<>>)

declare_class ==
  LET c == This.class IN
  /\ Doing("declare")
  /\ \/ /\ Found(c, source)
        /\ declared' = declared \cup {<<c, source>>}
        /\ misread' = [misread EXCEPT !.hash = @ \ {c}]
     \* sncast fails, and there is one in its message, which is recorded as well.
     \/ /\ MayMisread /\ \E hash \in Hexes : Found(c, hash)
        /\ declared' \in {declared, declared \cup {<<c, source>>}}
        /\ misread' = [misread EXCEPT !.hash = @ \cup {c}]
  /\ UNCHANGED <<contracts, source, runs, json, disturbed, refused>>

\* A factory keeps the classes that it was constructed with.
Makes(kind) ==
  IF kind = "Factory" THEN {"PT", "YT"} ELSE IF kind = "MarketFactory" THEN {"Market"} ELSE {}

Contract(kind, of, expiry, version) ==
  [kind |-> kind, of |-> of, expiry |-> expiry, class |-> <<kind, version>>,
   makes |-> [c \in Makes(kind) |-> sh.hash[c]]]

Deployed == Contract(This.key[1], {sh.address[k] : k \in This.of}, 0, sh.hash[This.key[1]])

\* The chain deploys only what is declared (otherwise Fails).
DeclaredHash == <<This.key[1], sh.hash[This.key[1]]>> \in declared

\* Mutant: what .env records is not looked at.
deploy_contract_again ==
  /\ Doing("deploy") /\ DeclaredHash
  /\ contracts' = Append(contracts, Deployed)
  /\ Submitted(<<[op |-> "record", key |-> This.key, value |-> Len(contracts) + 1]>>)
  /\ UNCHANGED <<env, declared, source, runs, json, misread, refused>>

deploy_contract ==
  /\ Doing("deploy")
  /\ IF sh.address[This.key] # 0
     THEN Continue(<<>>) /\ UNCHANGED <<sh, contracts, disturbed>>
     ELSE /\ DeclaredHash
          /\ contracts' = Append(contracts, Deployed)
          /\ Submitted(<<[op |-> "record", key |-> This.key, value |-> Len(contracts) + 1]>>)
  /\ UNCHANGED <<env, declared, source, runs, json, misread, refused>>

record_address ==
  /\ Doing("record")
  /\ update_env(This.key, This.value) /\ Continue(<<>>)
  /\ UNCHANGED <<contracts, declared, source, runs, json, disturbed, misread, refused>>

invoke_contract ==
  /\ Doing("invoke")
  /\ IF This.given = This.taken THEN Continue(<<>>) /\ UNCHANGED sh ELSE Stop("broken")
  /\ UNCHANGED <<env, contracts, declared, source, runs, json, disturbed, misread, refused>>

\* 30 days from now.
set_expiry ==
  /\ Doing("expiry")
  /\ env' = [env EXCEPT !.expiry = runs] /\ sh' = [sh EXCEPT !.expiry = runs]
  /\ Continue(<<>>)
  /\ UNCHANGED <<contracts, declared, source, runs, json, disturbed, misread, refused>>

Existing(kind, of, expiry) ==
  {i \in DOMAIN contracts :
     contracts[i].kind = kind /\ contracts[i].of = of /\ contracts[i].expiry = expiry}

Address(name) == sh.address[<<name, NoPair>>]

\* The factory of that name, with a class of its own, deploys declared classes.
CanMake(factory, kinds) ==
  /\ Address(factory) \in DOMAIN contracts
  /\ LET f == contracts[Address(factory)] IN
     f.class[1] = factory /\ \A kind \in kinds : <<kind, f.makes[kind]>> \in declared

Made(factory, kind, of, expiry) ==
  Contract(kind, of, expiry, contracts[Address(factory)].makes[kind])

create_yield_contracts ==
  LET of == {sh.address[<<"SY", This.pair>>]} IN
  /\ Doing("create")
  /\ CanMake("Factory", {"PT", "YT"}) /\ Existing("PT", of, sh.expiry) = {}
  /\ contracts' = contracts
       \o <<Made("Factory", "PT", of, sh.expiry), Made("Factory", "YT", of, sh.expiry)>>
  /\ Submitted(<<>>)
  /\ UNCHANGED <<env, declared, source, runs, json, misread, refused>>

\* For a PT that the factory knows (is_valid_pt).
create_market ==
  LET pt == sh.address[<<"PT", This.pair>>] IN
  /\ Doing("create_market")
  /\ CanMake("MarketFactory", {"Market"}) /\ Existing("Market", {pt}, 0) = {}
  /\ pt \in DOMAIN contracts /\ contracts[pt].kind = "PT"
  /\ contracts' = Append(contracts, Made("MarketFactory", "Market", {pt}, 0))
  /\ Submitted(<<>>)
  /\ UNCHANGED <<env, declared, source, runs, json, misread, refused>>

\* What get_pt, get_yt or get_market answers.
Registered(key) ==
  IF key[1] = "Market" THEN Existing("Market", {sh.address[<<"PT", key[2]>>]}, 0)
  ELSE Existing(key[1], {sh.address[<<"SY", key[2]>>]}, sh.expiry)

\* The first 0x string of what sncast says, whether or not it fails.
call_contract ==
  LET key == This.key IN
  /\ Doing("read")
  /\ \/ \E value \in Registered(key) :
          update_env(key, value) /\ UNCHANGED <<disturbed, misread>>
     \* It fails, and there is one in its message; or there is none, or the
     \* block is not there yet, which is recorded unless it is a market's.
     \/ /\ MayMisread /\ disturbed' = TRUE
        /\ misread' = [misread EXCEPT !.address = @ \cup {key}]
        /\ \/ \E value \in Hexes : update_env(key, value)
           \/ IF key[1] = "Market" THEN UNCHANGED <<env, sh>> ELSE update_env(key, 0)
  /\ Continue(<<>>)
  /\ UNCHANGED <<contracts, declared, source, runs, json, refused>>

export_addresses ==
  /\ Doing("export")
  /\ json' = sh /\ Stop("well")
  /\ UNCHANGED <<env, contracts, declared, source, runs, disturbed, misread, refused>>

-----------------------------------------------------------------------------
(* upgrade.sh *)

\* ((COUNTER++)) fails while the counter is zero.
Count(counter, more) ==
  IF counter \in script.counted \/ script.legacy
  THEN /\ script' = [script EXCEPT !.todo = more \o Tail(@), !.counted = @ \cup {counter},
                                   !.recorded = FALSE]
       /\ UNCHANGED <<sh, ended>>
  ELSE Stop("broken")

\* get_new_class_hash: the first 0x string of what sncast says, too.
check_class ==
  LET c == This.class IN
  /\ Doing("check")
  /\ \/ /\ ~This.wanted \/ sh.hash[c] = 0
        /\ Continue(<<>>) /\ UNCHANGED sh
     \/ /\ This.wanted /\ sh.hash[c] # 0
        /\ \E new_hash \in {source} \cup Hexes :
             IF sh.hash[c] = new_hash THEN Count("skipped", <<>>)
             ELSE Count("needed", instance_addresses(c, new_hash))
  /\ UNCHANGED <<env, contracts, declared, source, runs, json, disturbed, misread, refused>>

Performed(c, new_hash) == [op |-> "performed", class |-> c, new |-> new_hash]
Returns0 == Continue(<<Performed(This.key[1], This.new)>>)

\* There is no instance; or the user aborts everything.
upgrade_contract_ends ==
  /\ Doing("upgrade")
  /\ IF sh.address[This.key] = 0 THEN Continue(<<>>) /\ UNCHANGED sh ELSE Stop("stopped")
  /\ UNCHANGED <<env, contracts, declared, source, runs, json, disturbed, misread, refused>>

\* The user refuses this one, which returns 0 like an upgrade.
upgrade_contract_refused ==
  /\ Doing("upgrade") /\ sh.address[This.key] # 0
  /\ refused' = TRUE /\ Returns0
  /\ UNCHANGED <<env, sh, contracts, declared, source, runs, json, disturbed, misread>>

\* What the chain replaces is the class of whatever is at that address.
Replaced ==
  LET c == This.key[1] IN
  /\ sh.address[This.key] \in DOMAIN contracts /\ <<c, This.new>> \in declared'
  /\ contracts' = [contracts EXCEPT ![sh.address[This.key]].class = <<c, This.new>>]

\* Mutant: a failed declaration returns 0 as well.
upgrade_contract_fails_unnoticed ==
  /\ Doing("upgrade") /\ sh.address[This.key] # 0
  /\ Returns0
  /\ UNCHANGED <<env, sh, contracts, declared, source, runs, json, disturbed, misread, refused>>

\* The declaration fails, or the upgrade after it, with or without an effect.
upgrade_contract_fails ==
  /\ Doing("upgrade") /\ sh.address[This.key] # 0
  /\ declared' \in {declared, declared \cup {<<This.key[1], source>>}}
  /\ Replaced \/ UNCHANGED contracts
  /\ Continue(<<>>)
  /\ UNCHANGED <<env, sh, source, runs, json, disturbed, misread, refused>>

upgrade_contract ==
  /\ Doing("upgrade") /\ sh.address[This.key] # 0
  /\ declared' = declared \cup {<<This.key[1], source>>}
  /\ Replaced /\ Returns0
  /\ UNCHANGED <<env, sh, source, runs, json, disturbed, misread, refused>>

\* UPGRADES_PERFORMED, and the class hash after the first instance.
record_upgrade ==
  LET c == This.class IN
  /\ Doing("performed")
  /\ IF "performed" \in script.counted \/ script.legacy
     THEN /\ script' = [script EXCEPT !.todo = Tail(@), !.recorded = TRUE,
                                      !.counted = @ \cup {"performed"}]
          /\ IF script.recorded THEN UNCHANGED <<env, misread>>
             ELSE /\ env' = [env EXCEPT !.hash[c] = This.new]
                  /\ misread' = [misread EXCEPT !.hash = @ \ {c}]
          /\ UNCHANGED <<sh, ended>>
     ELSE Stop("broken") /\ UNCHANGED <<env, misread>>
  /\ UNCHANGED <<contracts, declared, source, runs, json, disturbed, refused>>

summary ==
  /\ Doing("summary") /\ Stop("well")
  /\ UNCHANGED <<env, contracts, declared, source, runs, json, disturbed, misread, refused>>

DeployNext ==
  \/ Start("deploy", deploy_sh)
  \/ \E selected \in Selections : Start("upgrade", upgrade_sh(selected))
  \/ Fails \/ Interrupt \/ Edit \/ ResetEnv
  \/ Expand \/ declare_class \/ deploy_contract \/ record_address \/ invoke_contract
  \/ set_expiry \/ create_yield_contracts \/ create_market \/ call_contract \/ export_addresses
  \/ check_class \/ upgrade_contract_ends \/ upgrade_contract_refused
  \/ upgrade_contract_fails \/ upgrade_contract \/ record_upgrade \/ summary

DeploySpec == DeployInit /\ [][DeployNext]_deployVars

-----------------------------------------------------------------------------
(* Properties *)

LinksOf(k) ==
  CASE k[1] = "MarketFactory" -> {<<"Factory", NoPair>>}
    [] k[1] = "SY" -> {<<"MockYieldToken", k[2]>>}
    [] k[1] \in {"PT", "YT"} -> {<<"SY", k[2]>>}
    [] k[1] = "Market" -> {<<"PT", k[2]>>}
    [] OTHER -> {}

LinkedIn(names) ==
  /\ \A k \in Keys \ misread.address : names.address[k] # 0 =>
       /\ contracts[names.address[k]].kind = k[1]
       /\ contracts[names.address[k]].of = {names.address[link] : link \in LinksOf(k)}
  /\ \A p \in Pairs :
       LET PT == names.address[<<"PT", p>>]
           YT == names.address[<<"YT", p>>] IN
       YT # 0 /\ <<"PT", p>> \notin misread.address /\ <<"YT", p>> \notin misread.address =>
         PT # 0 /\ contracts[PT].expiry = contracts[YT].expiry

\* update_env: however often deploy.sh was interrupted, failed and was started
\* again, .env names contracts that belong together: the market of the PT of the
\* SY of the yield token, under the market factory of the factory, and the YT
\* that was made with that PT.  So does the export, which is complete unless a run
\* was disturbed.  Excused are the names that call_contract left empty or took
\* from an error message.
Linked ==
  /\ LinkedIn(env)
  /\ json # Nothing =>
       LinkedIn(json) /\ (~disturbed => \A k \in Keys : json.address[k] # 0)

\* deploy_contract ("Check if already deployed"): what is recorded is not
\* deployed again.  Of a pair, the YT may be, when the PT was not recorded.
\* update_env is one command here: its last line empties .env before it writes
\* it again, and an interruption in between loses every name.
RecordedStays ==
  [][\/ ResetEnv
     \/ \A k \in Keys : env.address[k] # 0 /\ k[1] # "YT" => env'.address[k] = env.address[k]]_deployVars

\* deploy.sh: every contract it deployed is in .env when it ends, well or not,
\* unless it was interrupted, a read failed, or sncast did not report what it
\* deployed ("Could not extract address" and the like).
NoOrphans ==
  ~disturbed /\ script.name = "none" =>
    \A i \in DOMAIN contracts : \E k \in Keys : env.address[k] = i

\* upgrade.sh ("Declare the new class AFTER confirmation"): unless the user
\* refused an upgrade, .env records only classes that are declared, so that
\* deploy.sh can go on with it, but for those that declare_class took from the
\* message of a declaration that failed.
HashesDeclared ==
  ~refused => \A c \in Range(Classes) \ misread.hash :
    env.hash[c] # 0 => <<c, env.hash[c]>> \in declared

\* A script ends well unless a command fails, the user aborts it or it is
\* interrupted.  (Header of upgrade.sh: "If different, declares the new class
\* and upgrades all deployed instances".)
EndsWell == ended # "broken"
=============================================================================
