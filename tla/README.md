# A verification project for the GS-TBK group signature prototype

TLA+ specifications of the protocol code of this repository (`src/crates`), the
TLC configurations that model-check them on small instances, and theorems about
them whose proofs the TLA+ proof system checks for every value of the constants.

Contents: [1 the system](#1-the-system), [2 the modules](#2-the-modules),
[3 the runs](#3-the-runs), [4 the theorems](#4-the-theorems),
[5 findings](#5-where-the-code-and-its-documentation-disagree),
[6 what is not modelled](#6-what-is-not-modelled), [7 plan](#7-plan).

## 1. The system

A **proxy**, `share_counts` (4) **nodes** (group managers) and up to six
**users** are processes that exchange JSON messages over TCP. Every message
travels on a connection of its own and is handled by a tokio task of its own.
A handler takes the global `Mutex` around the process's state (`Proxy`, `Node`,
`User`) before it reads and holds it until its last message is sent, so a
handler is atomic with respect to the other handlers of its process: it is one
action. Between two processes nothing orders two messages. A handler that
panics takes only its task with it: what it wrote before stays, its message is
lost, and a tokio mutex is not poisoned.

| component | state | operations | what makes it correct |
|---|---|---|---|
| setup (`setup_phase.rs`, handlers in `proxy_node.rs`, `node1.rs`) | registrations, two counters and `node_info_vec` at the proxy; id, key pair and list at the nodes | register, broadcast the list, count the flags, start key generation | ids agree everywhere; key generation starts once every entry of the list has answered |
| key generation (`keygen_phase.rs`) | `gpk`, `participants`, vectors of commitments, dealings and proofs, `yi_map`, `mskshare`, `xj_num` | phases one to six | deal after all commit; the public key is published only when it is shared; a share is final; it ends |
| MtA exchange (`join_issue_phase.rs`, `revoke_phase.rs` of the nodes) | `mtaparams`, `tag_map`, `shared_message_map`, `mta_two_map` | open, put aside, answer, receive an answer | the additive shares sum up to the product |
| joining and issuing (`join_issue_phase.rs`) | `user_info_map`, the id counter and per-user vectors at the proxy; `reg` at the nodes; `gsk` at the user | phases one to six, flags | one id per user; a key made of complete shares of all participants for that id; registered at all nodes before revocation starts |
| time tree (`tree.rs`) | 2^level - 1 tree nodes, expiry times at the leaves | `path`, `cstbk`, `choose_leaf`, search of the current leaf | path and cover meet in one node exactly for leaves that have not expired |
| revocation (`revoke_phase.rs`) | `revoke_info` (one, for all users), `ei_info`, per-user vectors | cover of the current leaf, exchange, distribution, flags | the expiry information is at every node before the signature is verified, the same everywhere |
| sign, verify, open (`sign_phase*.rs`, `verify_phase.rs`, `open_phase.rs`) | `ei_info`, `gsk`, `reg`, the chain | sign and register, verify at every node, open with all nodes | a signature is valid iff honest and in time; only what every node found invalid is opened; a round ends |
| key management (`key_manage.rs`) | shares of gamma_A and gamma_B | recover, refresh | a refresh keeps the secret and gives every node a new share |
| chain bridge and contracts (`chain_bridge.rs`, `contracts/`, `chain-apps/`) | signatures and personal data on the FISCO-BCOS chain | register, query | a node reads back what the user registered |
| service scripts (`scripts/run-local`) | PID files, logs | start, stop, restart, status, waits | a role is started after the one it needs, and once |
| communication (`communication.rs`) | - | `broadcast`, `p2p` | every addressee is reached |
| identity information (`id_info_process`), audit console, vendored class groups, BBS, zero-knowledge proofs | - | pure functions, a user interface | not for a model checker |

How they interact. Setup leads to key generation, which leads to joining, when
users come; a join leads to a revocation round, with whose data the user signs;
the signature goes over the chain to the nodes that verify it and, if it is
invalid, open it. Joining and revocation each use the exchange, with maps of
their own. The proxy is the hub: only the commitments of key generation and the
exchange go from node to node.

The hard behaviours are messages in any order (a broadcast against what the
peers sent in reaction to it; two messages of one sender), vectors compared with
`==` in some handlers and not in others, state shared by the rounds of different
users (`revoke_info`, the user map, the id counter), flags of different kinds
counted together, nodes that restart while they are counted, and wall-clock time
(a leaf expires every 130 seconds). `PROJECT.json` lists them, each at its line,
with the properties that would catch it going wrong.

## 2. The modules

| module | models | checked by |
|---|---|---|
| `Setup` | registration of the nodes up to the start of key generation, with nodes that are stopped and started again | `MCSetup`, `SetupProofs` |
| `KeyGen` | key generation: proxy and all nodes | `MCKeyGen`, `KeyGenProofs` |
| `SharedProduct` | abstract: each party issues one share, after all have drawn, with all cross terms | `ImplementsProduct` of `MtA` |
| `MtA` | the exchange among the participants, any number of sessions | `MCMtA`, `MtAProofs` |
| `JoinIssue` | joining of several users, composed with `MtA` (one session per id), who take the leaves of `TimeTree` until there are none | `MCJoinIssue`, `MCDeployment`, `JoinIssueProofs` |
| `Deployment` | `KeyGen` and `JoinIssue` in one deployment, with users that come too early | `MCDeployment`, `DeploymentProofs` |
| `TimeTree` | the tree's pure functions, as operators | through `JoinIssue` and the two below |
| `KeyExpiry` | users joining and periods passing over a deployment's life | `MCKeyExpiry`, `KeyExpiryProofs` |
| `Revocation` | the rounds of all users, signing, verification and opening, composed with `SharedProduct` and `TimeTree` | `MCRevocation`, `RevocationProofs` |
| `Ledger` | the two contracts, their history per block, and the calls of users and nodes to them | `MCLedger`, `LedgerProofs` |

Conventions. An action carries the name of the phase function in the code
(`NodePhaseTwo` is `keygen_phase_two` at a node with its handler). What a
message contains has an operator of its own (`Commitments`, `Dealing`,
`KeyFor`). Messages in flight are sets from which any one may be handled next.
Each proofs module EXTENDS the component it is about; the inductive invariant is
in the component, so that TLC checks the same definition.
An operator that ends in a variant (`FullOneShort`, `AllFlagsMore`) is a mutant:
the definition with a plausible bug, against which a property is tried; no
specification uses it.

**Setup.** `setupVec` is the vector of registrations and its length the counter;
a registration carries the `life` of the process that sent it, which stands for
its key pair. `Start` and `Stop` are a node process coming up and going down; a
broadcast ends at the first address that refuses the connection (`Broadcast`),
and `ProxySetupTwo` goes on to key generation only if it reached all
(`AllReached`). `IdIn` is the loop in which the last entry with the node's
address wins.

**KeyGen.** A vector of messages is the set of its senders; a share of a key is
the set of dealers whose contributions it sums. `NodePhaseOne`, the handler of
the proxy's broadcast, adds the node's own commitments to its vectors and does
*not* compare their length; `NodePhaseTwo`, the handler of a peer's, does.
`ProvedTag` are the keys that enter the public key (all but Gamma_C): the proof
of phase five (`CanProve`) unwraps only theirs.

**MtA and SharedProduct.** A share is the pair of the sets of parties whose
alpha term (received) and beta term (kept) were added to it: the shares sum up
to the product exactly when both are everybody else. `Begin` is the proxy's
message, `HoldOne` and `AnswerOne` the two branches of the handler of an
opening, `RecvTwo` the handler of an answer. In the sessions of `Ordered` an
opening is handled before the answer of the same sender; in the others nothing
is ordered. Joining and revocation use the same handlers with other maps; a
session is one user in one of the two.

**JoinIssue.** The handlers of proxy, user and nodes from the user's start flag
to the start of its revocation round. With `InOrder`, two messages from one
process to another are handled in the order they were sent (all sessions of the
exchange are in `Ordered`). It EXTENDS `TimeTree` for the user's leaf:
`ProxyPhaseTwo` looks it up before it enters the user, and past the last leaf
the look-up panics (`tree.rs:84`), so the user keeps its id and its message is
lost. `WithLeaf` are the ids the tree has a leaf for, seven with the deployed
four levels.

**Deployment.** `KeyGen` and `JoinIssue` are instances over disjoint variables;
each step is a step of one of them that leaves the other alone, plus the two
places where they meet. The proxy answers a user with the public key it has
(`gpkSent`), and a node that is told of a user needs the participants and its
share of Gamma_A, in the third round that of Gamma_C (`ReadyFor`). If it lacks
one the handler panics after it has tagged the id, and possibly entered the user
(`LoseUser`); the peers' openings for the id then find the tag but no
parameters (`LoseOpening`). A user in `Early` may come at any time, as with
`GSTBK_SERVICE_WAIT_FOR_KEYGEN=0` or when it is started on its own; the others
wait for the proxy's line in the log, which is printed when `gpk` is complete and
before any node has it.

**TimeTree, KeyExpiry, Revocation.** Time is a number of periods. `CurrentLeaf`
is the search with which a round begins. In `Revocation`, `revokeInfo` is the
proxy's one `revoke_info`; expiry information is named by the round whose
`revoke_info` it was computed from, which need not be the user's own
(`SharesFor` says when the shares fit it). `Wrong` users run `sign_wrong`, the
name of a `Taken` user may have a signature of an earlier deployment on the
chain, the calls of a `Failing` node or user to the chain may fail: a user's
before or after the chain executes it, at the signature or at the personal
information.

**Ledger.** `table` is what a contract holds under the names, `old` what it
holds under name@block (names are assumed to be without "@"), `past` what the
names held when each block was sealed, recorded for the properties. A value is
named by the life of the user that registered it. `Execute` is a transaction,
executed at once in the block in the making, and what its caller does with the
receipt: `signature_run.sh` exits 0 whatever the contract returned, so a refused
name (`ret -1`) is no failure. `Fail` is a call that fails while its transaction
may still be pending, `Start` a user that is started, or started again wherever
it was. `SelectAt` is `selectWithBlockNumber`, `Searched` its loop. Revocation's
`chain` and `info` are the two tables with one life per user.

## 3. The runs

| run | expectation | what it shows | distinct states |
|---|---|---|---|
| `setup` | pass | ids agree, key generation starts only when all entries have answered, and starts unless a node is stopped | 284,992 |
| `keygen` | pass | safety in every order of delivery, the inductive invariant; it ends unless the proxy's broadcast comes last somewhere | 119,952 |
| `keygen_stall` | violation | if it does come last, the node never deals | 119,952 |
| `mta` | pass | an ordered and an unordered session: what holds of the exchange in every order, its end included, and that the ordered one implements `SharedProduct` | 19,565 |
| `mta_early` | violation | in some order a share leaves without a beta term | 544 |
| `deployment` | pass | two concurrent users, one perhaps too early: ids, keys, the user map; the one that waited finds every node ready and is joined | 458,607 |
| `join_unordered` | pass | revocation starts only when all are registered, and does start unless a node loses its last broadcast, in every order, for the user there is a leaf for and not for the other | 67,185 |
| `join_lost` | violation | a node that is not a participant can lose it, with the deployed four nodes and three participants | 309,677 |
| `key_expiry` | pass | a key signs exactly until its leaf expires; the cover is exact | 256 |
| `revocation` | pass | readiness, the verdict, who is opened and can be identified, that nothing is verified when all leaves had expired, that what nodes hold and found is final, and that rounds end unless stuck for one of three reasons | 535,887 |
| `revocation_mixed` | violation | the rounds of two users can get into each other's way | 72,023 |
| `ledger` | pass | the history is the past; all nodes read one signature, with personal information behind it | 127,115 |

`setup`, `keygen`, `mta`, `deployment`, `join_unordered` and `ledger` also check the inductive invariant of their component's proofs (`IInv`,
`DeploymentInv`), of which the type invariant is a conjunct: TLC found the conjuncts that were wrong before a proof of them
was tried, and a change of a model that breaks a proof shows there first. `IInv` of
`Revocation` was checked in the same way on the instance of `revocation`, which
states only its type invariant because liveness takes most of the run's time.

**Bounds.** *Setup*: three nodes, each started at most twice (`MaxLife`): enough
for an address that is listed twice while another is missing. *Key generation*:
three nodes and two of the four keys, one that is proved and one that is not;
the keys are handled alike and meet only in `xj_num`. *Exchange*: three parties,
the deployed number, and two sessions, one ordered and one not: sessions share
no state. *Joining*: two users and two levels, so that there is a leaf for the
first and none for the second, with four nodes of which two are participants, in
every order; `join_lost` has the deployed three participants and one user (the
same with a second user has 2.5 million states, and takes longer than a run
should). *Deployment*: two nodes, both participants, with a proved
and an unproved key and two users, one of them early, messages of a join in
order, with symmetry over the nodes (safety only), and a leaf for each (`Level` = 3); a node that is not a
participant needs less of key generation, and is in the runs of joining. *Tree*: five levels, one more than deployed, with the
sixteen leaves used and expired one by one. *Revocation*: two nodes, both
participants, two users, three levels; `MaxTime` = 3 lets all leaves expire
while the rounds run. *Ledger*: two names, two lives each (an old transaction
against the new ones), four blocks: the deployment, a registration, a
replacement and one after, with symmetry over the names.

**Deadlock** is not checked: each protocol stops when its last message is
handled. That it does not stop too early is what the liveness properties say.

**Fairness.** `FairSpec` is weak fairness of the handling of messages: the
runtime polls every spawned task and TCP delivers what it accepted. Each message
is handled once and finitely many are sent, so fairness of the disjunction
means each is handled. In `Setup` the script that starts the roles starts them
all (fairness of `Start`), `Stop` is not fair; in `Revocation` the clock is not.

**Conditional liveness.** The code does not always end, so what is checked is
that only the named situation stops it: `CompletesIfStarted` (not `StartedLast`),
`CompletesUnlessLost` (not `LastLost`, and only for ids in `WithLeaf`), `EndsUnlessStuck` (not `Stuck`: shares the proxy
could not use; a user without a node to sign with or with a failed registration;
a failed chain query), `SetupEnds` (no node is stopped). In `Deployment`
progress is stated as safety: every message is handled once, so the joins are
over when nothing is in flight, and `PromptUsersJoin` says what such a state
looks like. The situation is a predicate on the state, and the
violation runs show that it can come about.

## 4. The theorems

Every module of proofs but that of the tree goes through an inductive invariant,
`IInv`, stated in the component's module as a conjunction of named parts and
checked by TLC before it was proved. The invariants one wants are not inductive:
that a published key is shared does not follow from itself, but from where every
contribution has got to. A proof has a lemma per action, with a step per conjunct
the action can disturb, and a temporal step last. All of it is for every value
of the constants under the named assumptions of the modules, which TLC evaluates
in the runs. Nearly all of them say only that sets are finite, one contains
another, and bounds are numbers. Four say more:

- at least two participants (`JoinAssumption`, `PartyAssumption`): `config.json`
  has three; one alone would wait for an answer of nobody;
- `"user" \notin Node`: a user's flags and a node's are messages of different
  types in the code, and here told apart by their sender;
- `User \subseteq 1 .. FirstLeaf - 1` (`RevocationAssumption`): the rounds are
  those of users with a leaf. That the proxy starts none for any other is not
  assumed but proved, of joining (`Registered`), which takes any number of users;
- `PowersDouble`, 2^(k+1) = 2 * 2^k up to the number of levels: true of any
  level, but no prover used here has an axiom about powers.

**`SetupProofs`.** The proxy counts flags, and a restarted node can be listed
twice, so "all have answered" does not follow from the count. `FlagsCounted`
says that the flags counted and the entries still *open* (not ready, or with a
message of theirs on the way) together are at most `share_counts`: a count that
is full leaves none open. `LivesPast` keeps a new life from making an entry of
an old one unready (`Ready` is about the life that registered). Proved: `TypeCorrect`,
`IdsNameNodes`, `StartsReady`.

**`KeyGenProofs`.** `IInv` follows a contribution from stage to stage: a
commitment anywhere means its node has started (`CommitAfterStart`), is received
once (`CommitOnce`); who dealt held and opened all commitments (`DealtAll`); a
merged share sums all dealings and comes after the last of them
(`ShareAfterDeals`); `xjNum` is the number of shares held (`SharesCounted`); who
proved holds all shares (`ProofAfterShares`). Proved: `TypeCorrect`,
`DealsAfterCommits`, `PublishedKeyIsShared`, `NothingMissing` (what the last
handlers unwrap is there) and the action property `SharesNeverReplaced`.

**`MtAProofs`**, for any sessions. `IInv` says that an opening is in one of three
places, in flight, put aside or answered (`Opened`, `OpenedOnce`), that the two
halves of a term stay together (`TermsPaired`), that answers are counted
(`AnswersCounted`) and, in the sessions of `Ordered`, that who has answered has
been answered (`OpeningFirst`). Proved of every session: `TypeCorrect`,
`TermsStayPaired`, `ParamsAreFound`, `SharesSentOnce`. Proved of those in
`Ordered`, whatever the order in the others: `SharesAreComplete` and
`ExchangeImplementsProduct`, that every step is a step of `SharedProduct` or
leaves it unchanged. `Revocation` is composed with `SharedProduct` instead of
`MtA` on this ground, so its results are for an exchange in order.

**`JoinIssueProofs`.** `Inductive` proves two invariants together, that of joining
and, through `MP == INSTANCE MtAProofs`, that of the exchange it is composed
with; all the exchange owes to joining is in one lemma (`ExchangeSound`). `IInv`
says that an id is handed out once and found in the map before anything is filed
under it (`IdsHandedOnce`, `MapFollowsIds`, `NodesFollowMap`), that the shares
the proxy counts are final shares of different participants
(`KeysFollowShares`), and what a flag of each kind stands for (`FlagsFollow`); who
is in the map has a leaf.
Proved in any order of delivery: `TypeCorrect`, `Identifies`, `Registered` and
the action property `MapStable`. `WellFormed`, that a key has complete shares,
is proved under `InOrder`: without it `mta_early` refutes it.

**`DeploymentProofs`.** Joining and key generation share no variable, so the
invariant of each is kept by the steps of the other; what has to be proved is that losing messages
does no harm. A lost opening breaks the invariant of `MtA`, which says that
an opening is somewhere. `Lost` are the openings that have come, or will come,
to a broken exchange, and `Delayed` is `MtA` with these put back in flight: to
lose an opening is then a stutter of it and to panic before drawing parameters a
message that is still to come. So every behaviour with losses is, seen through
`Delayed`, one of the exchange in which some messages take for ever, and all
that is proved of it holds. `DeploymentInv` adds what ties the parts
(`ToldOnce`, `BrokenStays`, `PromptAfterKeygen`). Proved:
`DeploymentTypeCorrect`, `DeploymentIdentifies`, `DeploymentRegisters`,
`DeploymentWellFormed` (under `InOrder`), `DeploymentMapStable` and
`PromptUsersSafe`, which rests on `PublishedKeyIsShared`'s invariant: a user
that was given the complete key comes after every share.

`PromptUsersGetThere` is progress as safety: `PromptUsersJoin` speaks of states in
which nothing is on its way, and is as far from inductive as it can be.
`JoinsGoOn` says of every stage of a prompt user's join that what it waits for
is in flight or done: a node is being told or knows the user (`NodesTold`), who
has all terms has sent its share (`SharesSent`), the shares are counted or the
key is made (`KeyMade`), each round among the participants is asked, answered or
counted (`RoundGoesOn`, `KeyEncrypted`), and so are the flags (`FlagsRaised`).
That a stage starts from nothing needs `RoundsBelong` and what joining and the
exchange promise of an id not yet in the map (`NothingYet`); that its messages are
not lost needs `PromptReady`. In a quiet state each stage is then done and leads to
the next; that every opening was answered comes from `Opened` of `Delayed`, of whose
`Lost` nothing is for a prompt user, by `BrokenStays` (`QuietExchange`). It is
proved under `InOrder`: without it a node can lose the last broadcast (`join_lost`).
It is for any number of users and levels, and says which of them are joined: those
with a leaf. A prompt user past the last leaf drops out at its registration
(`NoLeafFlow`), and `Registered` says that no round ever starts for it.

**`KeyExpiryProofs`**, for every `Level`. The tree's functions are about powers
of two and division, with induction over levels; the induction is first-order
(the least level at which a statement fails, `LeastNatural`, `LevelByLevel`)
since the library's theorems take an operator. `UpStep` and `UpOrder` say that
going up halves an index and keeps the order of a level; `LeavesOnce`, that the
path of a leaf leaves the path of another at one level; from it `CoverMeets`,
that a leaf's path meets the cover of a leaf in exactly one node, if it lies to
the right of it, and in none otherwise. Proved: `TypeCorrect`, `Signs`, `Covers`.
The type invariant is inductive here; the difficulty is in the data.

**`RevocationProofs`** uses these through an instance. `IInv`: a round's leaf and
`revoke_info` are those of the clock when it began (`RoundsBegin`); the proxy
gives out expiry information once it has all shares and every message and node
has the same one (`OneInfoEach`); what a flag, a verdict and a step of opening
stand for (`FlagsFollow`, `VerdictsFollow`, `OpeningFollows`). Proved:
`TypeCorrect`, `ReadyToVerify`, `RightVerdicts` (with `CoverOfRoot`: on a round that
began when all leaves had expired there is no verdict), `AllOpen`, `Identified` and the
action property `OutcomesAreFinal`: neither node nor proxy looks whether there is
an `ei_info` or a verdict already, so that none is replaced follows only from
the counts that are reached once.

**`LedgerProofs`.** `SelectAt` looks for the latest block up to the asked one with
something kept under it. `OldLasts` and `OldStarts` say what `old` means for
`past`: from an entry to the next the value is that of the entry, before the
first there is none; that the search finds the right entry is `SearchFinds`.
`FlagsBacked` and `ReadsCurrent` tie what users were told and nodes read to what
the contracts hold. Proved: `TypeCorrect`, `HistoryCorrect`, `ReadersAgree`,
`Identified`.

**Only model-checked.**

- Liveness (`SetupEnds`, `CompletesIfStarted`, `ExchangeEnds`,
  `CompletesUnlessLost`, `EndsUnlessStuck`): fairness is beyond the prover.
- That `Revocation` may use `SharedProduct` in place of `MtA` is proved of the
  exchange alone (`ExchangeImplementsProduct`); the composition is an argument of
  this text, not a theorem.

## 5. Where the code and its documentation disagree

Each has a run in which TLC finds a behaviour of the model, and an entry under
"findings" in `PROJECT.json` with the line that is quoted.

1. *Key generation can stall* (`keygen_stall`): a node that handles the proxy's
   broadcast after the commitments of all its peers fills its vector in the
   handler that does not compare the length.
2. *A share can be incomplete* (`mta_early`): the share is sent when all answers
   are in, whether or not all openings were answered.
3. *A join can hang* (`join_lost`): the last broadcast of a join can overtake the
   first at a node that is not a participant; its handler panics and the flag never comes.
4. *A round can be lost to another* (`revocation_mixed`): a second user's round
   replaces `revoke_info` after a period has passed; the proxy looks for shares
   the first round has none for and panics.

All are rare with the deployed timing, in which a message takes milliseconds.
Remarks that are not counted as disagreements: a user whose key has expired
signs with a made-up point, so opening reports an invalid key, not an expired
one (`NodeOpenThree`); and a node that is restarted during setup takes part under the
key pair of its first life as far as its peers know (`Setup`), so shares
encrypted for it cannot be read. A user that comes before key generation is
finished is given a public key without vk_A, vk_B and g1 and never gets the
rest: its join may hang, and if it does not, signing unwraps what is missing
(`sign_phase.rs:116`); `PromptUsersJoin` says that it harms nobody else. A user
that is restarted after its signature was registered keeps that signature on
the chain (`ReadsAgree`), so what its new life signs is never read. The search
of `selectWithBlockNumber` leaves out block 1, against its comment; the contract
is itself created in a block, so nothing can be registered there (`HistoryIsPast`).
The deployed tree has leaves for seven users, and six are configured; one past
the last is given an id and then left waiting, without a word from the proxy, and
harms nobody else (`CompletesUnlessLost`, `PromptUsersJoin`).

## 6. What is not modelled

- Cryptography: every proof is right and every process follows the code, except
  for users that run `sign_wrong`. Paths taken only on a rejected proof are left out.
- Broken connections and failing processes outside setup.
- Key management: the handlers exist, but the lines that would send their first
  message are commented out (`proxy_node.rs:449-490`) and nothing else does, so
  no behaviour of the program reaches them.
- The chain below the contracts: consensus, permissions, what the table
  precompile does when a contract is deployed a second time.
- A user that comes during setup, before the proxy has any public key: its start
  flag is counted and the handler panics.
- PID files, status and logs of the service scripts; the command line for
  identity information; the audit console.
- `choose_revoke_user` and `RL`: dead code, the only call is commented out.

## 7. Plan

All components that have behaviour are modelled, and every invariant and action
property that a passing run checks is a theorem. Next:

1. That with the exchange in order the round in `Revocation` may be composed with
   `MtA` itself: so far its sessions are those of `SharedProduct`.
2. Quiet states of the other components, as `PromptUsersJoin` has it for joining:
   safety theorems that say as much as can be proved of `ExchangeEnds`,
   `CompletesUnlessLost` and `EndsUnlessStuck`, whose fairness is beyond the prover.
3. Runs are kept few: new questions join existing runs where the instance allows it.
