------------------------------- MODULE Goods -------------------------------
(***************************************************************************)
(* Money and items of the framework.                                       *)
(*                                                                         *)
(* The economy service keeps authoritative balances and the append-only    *)
(* ledger of committed transfers.  An account is the pair (player, kind)   *)
(* the code uses as its key, here one model value.  Balances are words of  *)
(* MoneySpace values (2^64 in the code): the release profile does not turn *)
(* overflow checks on, so addition wraps.                                  *)
(*                                                                         *)
(* The inventory service keeps an item registry and one inventory per      *)
(* storage (a player, a vehicle, a property, a container).  Items enter    *)
(* through give, leave through take and move with transfer, which takes    *)
(* from the source, gives to the destination and gives back to the source  *)
(* when the destination refuses.  Weights and counts are u32 in the code;  *)
(* here they are words of WeightSpace values that wrap.                    *)
(***************************************************************************)
EXTENDS Integers, SequencesExt, Sums

-----------------------------------------------------------------------------
(* The economy service. *)

CONSTANTS
    Accounts,   \* keys of the balance table
    MoneySpace, \* values of a balance
    Amounts,    \* amounts callers ask for, zero included
    MintLimit,  \* bound: what system calls mint over a whole run
    MaxLedger   \* bound: number of committed transfers

ASSUME EconomyAssumption ==
    /\ MoneySpace \in Nat \ {0} /\ IsFiniteSet(Accounts)
    /\ Amounts \subseteq 0..(MoneySpace - 1)
    /\ MintLimit \in Nat /\ MaxLedger \in Nat

VARIABLES
    balances,   \* account -> balance
    ledger,     \* sequence of [from, to, amount]
    minted,     \* history: what credit brought into each account
    burned      \* history: what debit took out of each account

economyVars == <<balances, ledger, minted, burned>>

Word == 0..(MoneySpace - 1)

Transaction == [from : Accounts, to : Accounts, amount : Amounts]

EconomyInit ==
    /\ balances = [a \in Accounts |-> 0]
    /\ ledger = <<>>
    /\ minted = [a \in Accounts |-> 0]
    /\ burned = [a \in Accounts |-> 0]

-----------------------------------------------------------------------------
(* The two primitive mutations, on a table b. *)

Credited(b, a, n) == [b EXCEPT ![a] = (@ + n) % MoneySpace]

(* The overdraft check. *)
Covers(b, a, n) == b[a] >= n

Debited(b, a, n) == [b EXCEPT ![a] = @ - n]

(* credit: a system call mints money. *)
credit(a, n) ==
    /\ n # 0
    /\ SumOver(Accounts, minted) + n <= MintLimit
    /\ balances' = Credited(balances, a, n)
    /\ minted' = [minted EXCEPT ![a] = @ + n]
    /\ UNCHANGED <<ledger, burned>>

(* debit: money leaves the economy; an overdraft is refused. *)
debit(a, n) ==
    /\ n # 0
    /\ Covers(balances, a, n)
    /\ balances' = Debited(balances, a, n)
    /\ burned' = [burned EXCEPT ![a] = @ + n]
    /\ UNCHANGED <<ledger, minted>>

(* Mutant: the debit is forgotten: the source keeps its money. *)
transfer_no_debit(t) ==
    /\ t.amount # 0
    /\ t.from # t.to
    /\ Covers(balances, t.from, t.amount)
    /\ Len(ledger) < MaxLedger
    /\ balances' = Credited(balances, t.to, t.amount)
    /\ ledger' = Append(ledger, t)
    /\ UNCHANGED <<minted, burned>>

(* transfer: debit, credit and ledger entry in one step without an await.  *)
(* A call whose guard fails returns an error and changes nothing.          *)
transfer(t) ==
    /\ t.amount # 0
    /\ t.from # t.to
    /\ Covers(balances, t.from, t.amount)
    /\ Len(ledger) < MaxLedger
    /\ balances' = Credited(Debited(balances, t.from, t.amount), t.to, t.amount)
    /\ ledger' = Append(ledger, t)
    /\ UNCHANGED <<minted, burned>>

EconomyNext ==
    \/ \E a \in Accounts, n \in Amounts : credit(a, n) \/ debit(a, n)
    \/ \E t \in Transaction : transfer(t)

-----------------------------------------------------------------------------
(* Properties of the economy. *)

Inflow(a) ==
    SumTo(Len(ledger), [k \in 1..Len(ledger) |-> IF ledger[k].to = a THEN ledger[k].amount ELSE 0])

Outflow(a) ==
    SumTo(Len(ledger), [k \in 1..Len(ledger) |-> IF ledger[k].from = a THEN ledger[k].amount ELSE 0])

(* The ledger is the source of truth for audits (Transaction's comment):   *)
(* what was minted, what was burned and the committed transfers explain    *)
(* every balance, up to the wrap of a word, and exactly as long as what    *)
(* was minted fits in one.                                                 *)
LedgerExplains ==
    \A a \in Accounts :
        LET due == (minted[a] - burned[a]) + (Inflow(a) - Outflow(a))
        IN  /\ balances[a] = due % MoneySpace
            /\ SumOver(Accounts, minted) \in Word => balances[a] = due

-----------------------------------------------------------------------------
(* The inventory service. *)

CONSTANTS
    Items,        \* item definition ids
    Storages,     \* storage keys
    Nested,       \* storages whose depth is MAX_NESTING or more
    Weights,      \* weights of a unit an item may be registered with
    Stacks,       \* values of max_stack
    Limits,       \* weight limits callers pass
    Counts,       \* counts callers pass
    WeightSpace,  \* values of a weight or a count
    MaxEdits,     \* bound: registrations of an id that is already known
    MaxGranted,   \* bound: units of one item in circulation
    MaxSlots      \* bound: stacks in one storage

ASSUME InventoryAssumption ==
    /\ Nested \subseteq Storages
    /\ WeightSpace \in Nat \ {0} /\ IsFiniteSet(Storages)
    /\ Weights \cup Stacks \cup Limits \cup Counts \subseteq 0..(WeightSpace - 1)
    /\ {MaxEdits, MaxGranted, MaxSlots} \subseteq Nat

VARIABLES
    item_registry,  \* registered items -> their definition
    storages,     \* storage -> its limit (NoLimit until first used) and slots
    edits,        \* number of re-registrations so far
    granted       \* history: units given less units taken, per item

inventoryVars == <<item_registry, storages, edits, granted>>

NoLimit == -1
Wrap(n) == n % WeightSpace

Item == [weight : Weights, stackable : BOOLEAN, max_stack : Stacks]

ItemStack == [item : Items, count : Nat, weight_per_unit : Weights]

InventoryInit ==
    /\ item_registry = <<>>
    /\ storages = [s \in Storages |-> [limit |-> NoLimit, slots |-> <<>>]]
    /\ edits = 0
    /\ granted = [i \in Items |-> 0]

-----------------------------------------------------------------------------
(* Operations on a table of storages, with the storages they leave behind. *)

(* storage(): the first access fixes the weight limit, later ones are      *)
(* ignored. *)
Opened(st, s, limit) ==
    IF st[s].limit = NoLimit THEN [st EXCEPT ![s].limit = limit] ELSE st

(* What the stacks weigh. *)
Weight(slots) == SumTo(Len(slots), [k \in 1..Len(slots) |-> slots[k].weight_per_unit * slots[k].count])

(* Products and sums wrap, which a wrap of the whole sum comes to. *)
total_weight(slots) == Wrap(Weight(slots))

(* The place of the first stack of an item, or 0. *)
First(slots, i) ==
    LET places == {k \in 1..Len(slots) : slots[k].item = i}
    IN  IF places = {} THEN 0 ELSE Min(places)

Merges(slots, i) == item_registry[i].stackable /\ First(slots, i) # 0

NewCount(slots, i, n) ==
    IF Merges(slots, i) THEN Wrap(slots[First(slots, i)].count + n) ELSE n

OverWeight(store, i, n) ==
    Wrap(total_weight(store.slots) + Wrap(item_registry[i].weight * n)) > store.limit

(* Mutant: the count handed in is compared, not the merged stack's. *)
OverStackUnmerged(slots, i, n) == n > item_registry[i].max_stack

OverStack(slots, i, n) == NewCount(slots, i, n) > item_registry[i].max_stack

(* give: weight check, then merge into the first stack of the item when it *)
(* is stackable and present, else a new stack; the stack limit is checked  *)
(* against what the stack would hold. *)
GiveTo(st, s, limit, i, n) ==
    LET opened == Opened(st, s, limit)
        slots  == opened[s].slots
        after  == IF Merges(slots, i)
                  THEN [slots EXCEPT ![First(slots, i)].count = NewCount(slots, i, n)]
                  ELSE Append(slots, [item |-> i, count |-> n,
                                      weight_per_unit |-> item_registry[i].weight])
    IN  IF OverWeight(opened[s], i, n) \/ OverStack(slots, i, n)
        THEN [ok |-> FALSE, storages |-> opened]
        ELSE [ok |-> TRUE, storages |-> [opened EXCEPT ![s].slots = after]]

Insufficient(slots, i, n) ==
    First(slots, i) = 0 \/ slots[First(slots, i)].count < n

(* retain: the stacks that are not empty, in their order. *)
NotEmpty(slots) ==
    LET kept[k \in 0..Len(slots)] ==
            IF k = 0 THEN <<>>
            ELSE IF slots[k].count > 0 THEN Append(kept[k - 1], slots[k]) ELSE kept[k - 1]
    IN  kept[Len(slots)]

(* take: from the first stack of the item only; a stack that becomes empty *)
(* goes, with every other empty one. *)
TakeFrom(st, s, limit, i, n) ==
    LET opened == Opened(st, s, limit)
        slots  == opened[s].slots
        at     == First(slots, i)
        rest   == [slots EXCEPT ![at].count = @ - n]
        after  == IF rest[at].count = 0 THEN NotEmpty(rest) ELSE rest
    IN  IF Insufficient(slots, i, n)
        THEN [ok |-> FALSE, storages |-> opened]
        ELSE [ok |-> TRUE, storages |-> [opened EXCEPT ![s].slots = after]]

(* Mutant: the source is not given back what was taken. *)
Forgotten(st, from, limit, i, n) == st

(* The rollback of transfer; whether it succeeded is discarded. *)
RolledBack(st, from, limit, i, n) == GiveTo(st, from, limit, i, n).storages

Bounded(st) == \A s \in Storages : Len(st[s].slots) <= MaxSlots

-----------------------------------------------------------------------------
(* register: an id that is already known gets its new definition. *)
register(i, def) ==
    /\ IF i \notin DOMAIN item_registry THEN UNCHANGED edits
       ELSE edits < MaxEdits /\ item_registry[i] # def /\ edits' = edits + 1
    /\ item_registry' = [x \in DOMAIN item_registry \cup {i} |-> IF x = i THEN def ELSE item_registry[x]]
    /\ UNCHANGED <<storages, granted>>

(* give: an unknown item is refused before the storage is touched. *)
give(s, limit, i, n) ==
    /\ i \in DOMAIN item_registry
    /\ granted[i] + n <= MaxGranted
    /\ LET out == GiveTo(storages, s, limit, i, n)
       IN  /\ Bounded(out.storages)
           /\ storages' = out.storages
           /\ granted' = IF out.ok THEN [granted EXCEPT ![i] = @ + n] ELSE granted
    /\ UNCHANGED <<item_registry, edits>>

take(s, limit, i, n) ==
    /\ LET out == TakeFrom(storages, s, limit, i, n)
       IN  /\ storages' = out.storages
           /\ granted' = IF out.ok THEN [granted EXCEPT ![i] = @ - n] ELSE granted
    /\ UNCHANGED <<item_registry, edits>>

(* InventoryService::transfer: nesting check, take, give, and on a refusal give back. *)
transfer_items(from, to, limit, i, n) ==
    /\ LET opened == Opened(storages, to, limit)
           taken  == TakeFrom(opened, from, limit, i, n)
           given  == GiveTo(taken.storages, to, limit, i, n)
           after  == IF to \in Nested THEN opened
                     ELSE IF ~taken.ok THEN taken.storages
                     ELSE IF given.ok THEN given.storages
                     ELSE RolledBack(given.storages, from, limit, i, n)
       IN  Bounded(after) /\ storages' = after
    /\ UNCHANGED <<item_registry, edits, granted>>

InventoryNext ==
    \/ \E i \in Items, def \in Item : register(i, def)
    \/ \E s \in Storages, limit \in Limits, i \in Items, n \in Counts :
        give(s, limit, i, n) \/ take(s, limit, i, n)
    \/ \E from, to \in Storages, limit \in Limits, i \in Items, n \in Counts :
        transfer_items(from, to, limit, i, n)

-----------------------------------------------------------------------------
(* Properties of the inventory. *)

Units(slots, i) ==
    SumTo(Len(slots), [k \in 1..Len(slots) |-> IF slots[k].item = i THEN slots[k].count ELSE 0])

(* Units of an item in all storages of a table. *)
Held(st, i) == SumOver(Storages, [s \in Storages |-> Units(st[s].slots, i)])

(* No word wraps: what may be in circulation, weighed, fits into one above *)
(* any limit. *)
FitsWords == MaxGranted < WeightSpace /\ \A w \in Weights, limit \in Limits : limit + w * MaxGranted < WeightSpace

(* Definitions are as they were first registered, and the bounds on what   *)
(* is in circulation keep every sum within its word. *)
Unedited == edits = 0 /\ FitsWords

(* "no dupes, no losses": whatever transfers did, were refused or rolled   *)
(* back, the storages together never hold more than give granted and take  *)
(* did not take; and not less, as long as no definition has been edited    *)
(* and no word wraps.                                                      *)
NoDupesNoLosses ==
    \A i \in Items : Held(storages, i) <= granted[i] /\ (Unedited => Held(storages, i) = granted[i])

(* "Weight limits, stack limits ... are enforced here": while definitions  *)
(* are as they were first registered and no word wraps (FitsWords), no     *)
(* storage is heavier than its limit and no stack, merged or not, larger   *)
(* than its item's max_stack.                                              *)
WithinLimits ==
    Unedited =>
        \A s \in Storages :
            /\ storages[s].limit # NoLimit => Weight(storages[s].slots) <= storages[s].limit
            /\ \A k \in DOMAIN storages[s].slots :
                storages[s].slots[k].count <= item_registry[storages[s].slots[k].item].max_stack

(* give, take and transfer, rollback included, neither make nor lose       *)
(* units, and no storage is over a limit, while no definition is edited    *)
(* and no word wraps.                                                      *)
InventorySound == NoDupesNoLosses /\ WithinLimits

(* Money and goods of the framework over any sequence of calls: the ledger *)
(* explains every balance, and storages hold exactly what was given and    *)
(* not taken, within their limits, while no definition is edited and the   *)
(* sums of weights and counts fit their words.                             *)
GoodsAccounted == LedgerExplains /\ InventorySound
=============================================================================
