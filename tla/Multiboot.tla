----------------------------- MODULE Multiboot -----------------------------
(***************************************************************************)
(* parse_multiboot2_info and parse_memory_map_entries of                   *)
(* kernel/sys/mulitiboot2.c: one pass over the tags the boot loader has    *)
(* left in memory, which fills mem_info.                                   *)
(*                                                                         *)
(* The boot loader (external) is asked as the code reads: it puts each tag *)
(* at the next multiple of 8 and reports any memory map.  A 32-bit word    *)
(* holds 0..WORD-1, and uint64_t is a pair of words in one number.         *)
(***************************************************************************)
EXTENDS Integers, Sequences, FiniteSetsExt

CONSTANTS WORD,         \* 2^32
          MB,           \* 0x100000
          SLOTS,        \* entries of memory_map
          MaxEntries,   \* bound of the entries the boot loader reports
          MaxTags,      \* bound of its tags
          Starts,       \* addresses and
          Lengths,      \* lengths of regions
          Sizes         \* sizes of tags the code passes over

ASSUME WordAssumption == /\ WORD \in Nat \ {0} /\ MB \in 1..WORD
                         /\ Starts \cup Lengths \subseteq 0..(WORD * WORD - 1)
                         /\ SLOTS \in Nat /\ MaxEntries \in 0..(SLOTS + 1)
                         /\ MaxTags \in Nat /\ Sizes \subseteq Nat

VARIABLES tag,      \* where the code looks for the next tag
          placed,   \* where the boot loader has put it
          count,    \* tags so far
          left,     \* entries still to read
          entries,  \* history: the entries of the last memory map
          mem_info,
          step      \* "magic", "tag", "entry" or "done"

bootVars == <<tag, placed, count, left, entries, mem_info, step>>

RAM == 1
Empty == [map |-> [i \in 0..(SLOTS - 1) |-> <<>>], memory_map_count |-> 0,
          total_physical |-> 0, total_available |-> 0,
          first_usable |-> 0, last_usable |-> 0,
          basic |-> FALSE, kernel |-> FALSE]

Low32(n)  == n % WORD
High32(n) == n \div WORD
Add64(a, b) == (a + b) % (WORD * WORD)

(* Addresses of tags from the start of the block, in bytes. *)
Align8(a) == Min({b \in a..(a + 7) : b % 8 = 0})

BootInit ==
    /\ tag = 8
    /\ placed = 8
    /\ count = 0
    /\ left = 0
    /\ entries = <<>>
    /\ mem_info = Empty
    /\ step = "magic"

-----------------------------------------------------------------------------
(* parse_multiboot2_info *)

WrongMagic ==
    /\ step = "magic"
    /\ step' = "done"
    /\ UNCHANGED <<tag, placed, count, left, entries, mem_info>>

RightMagic ==
    /\ step = "magic"
    /\ step' = "tag"
    /\ UNCHANGED <<tag, placed, count, left, entries, mem_info>>

(* (tag->size + 7) & ~7 *)
NextTag(size) == tag' = tag + (size + 7) - ((size + 7) % 8)

(* Behind a tag of that size the loader puts the next one. *)
Loaded(size) == placed' = Align8(placed + size) /\ count' = count + 1

AtTag == step = "tag" /\ tag = placed

OtherTag ==
    /\ AtTag /\ count < MaxTags
    /\ \E size \in Sizes : NextTag(size) /\ Loaded(size)
    /\ UNCHANGED <<left, entries, mem_info, step>>

BasicTag ==
    /\ AtTag /\ count < MaxTags
    /\ NextTag(16) /\ Loaded(16)
    /\ mem_info' = [mem_info EXCEPT !.basic = TRUE]
    /\ UNCHANGED <<left, entries, step>>

(* Statistics begin anew; the tag holds n entries of 24 bytes. *)
MapTag ==
    /\ AtTag /\ count < MaxTags
    /\ \E n \in 0..MaxEntries :
        /\ NextTag(16 + 24 * n) /\ Loaded(16 + 24 * n)
        /\ left' = n
        /\ step' = IF n = 0 THEN "tag" ELSE "entry"
        /\ mem_info' = [mem_info EXCEPT !.memory_map_count = n,
                            !.total_physical = 0, !.total_available = 0,
                            !.first_usable = 0, !.last_usable = 0]
    /\ entries' = <<>>

(* The end tag: the bounds of the kernel are noted. *)
EndTag ==
    /\ AtTag
    /\ mem_info' = [mem_info EXCEPT !.kernel = TRUE]
    /\ step' = "done"
    /\ UNCHANGED <<tag, placed, count, left, entries>>

-----------------------------------------------------------------------------
(* parse_memory_map_entries *)

(* memory_map[i] = *entry.  The slot behind the last one is the memory of  *)
(* memory_map_count, total_physical, total_available and first_usable.     *)
Stored(info, i, e) ==
    IF i < SLOTS THEN [info EXCEPT !.map[i] = e]
    ELSE [info EXCEPT !.memory_map_count = Low32(e.addr),
                      !.total_physical = High32(e.addr) + WORD * Low32(e.len),
                      !.total_available = High32(e.len) + WORD * e.type,
                      !.first_usable = 0]

Counted(info, e) ==
    [info EXCEPT !.total_physical = Add64(@, e.len),
                 !.total_available = IF e.type = RAM THEN Add64(@, e.len) ELSE @]

Usable(e) == e.type = RAM /\ e.addr >= MB /\ e.addr < WORD - 1

(* Seeded fault: the lowest start is lost when a lower one follows. *)
BoundedFirst(info, e) ==
    IF ~Usable(e) THEN info
    ELSE [info EXCEPT
            !.first_usable = IF @ = 0 THEN Low32(e.addr) ELSE @,
            !.last_usable  = Max({@, Low32(Add64(e.addr, e.len))})]

Bounded(info, e) ==
    IF ~Usable(e) THEN info
    ELSE [info EXCEPT
            !.first_usable = IF @ = 0 \/ Low32(e.addr) < @ THEN Low32(e.addr) ELSE @,
            !.last_usable  = Max({@, Low32(Add64(e.addr, e.len))})]

Entry ==
    /\ step = "entry"
    /\ \E a \in Starts, l \in Lengths, type \in {RAM, 2} :
        LET e == [addr |-> a, len |-> l, type |-> type]
        IN /\ mem_info' = Bounded(Counted(Stored(mem_info, Len(entries), e), e), e)
           /\ entries' = Append(entries, e)
    /\ left' = left - 1
    /\ step' = IF left = 1 THEN "tag" ELSE "entry"
    /\ UNCHANGED <<tag, placed, count>>

BootNext ==
    \/ WrongMagic \/ RightMagic
    \/ OtherTag \/ BasicTag \/ MapTag \/ EndTag
    \/ Entry

BootSpec == BootInit /\ [][BootNext]_bootVars

-----------------------------------------------------------------------------
(* Properties *)

All       == DOMAIN entries
Regions   == {i \in All : Usable(entries[i])}
(* The lengths of the entries in S, added up in 64 bits. *)
Total(S)  ==
    LET sum[i \in 0..Len(entries)] ==
            IF i = 0 THEN 0
            ELSE IF i \in S THEN Add64(sum[i - 1], entries[i].len) ELSE sum[i - 1]
    IN sum[Len(entries)]
(* Ends of the usable regions, as far as they lie below 4 GB. *)
Ends      == {entries[i].addr + entries[i].len : i \in Regions}

(* mem_info says of the memory what the boot loader said, whatever tags    *)
(* stand between, as long as the map fits into its slots; the last usable  *)
(* address only if every usable region ends below 4 GB, since its end is   *)
(* cut to 32 bits.  The code looks for tags exactly where they are.        *)
MemInfoExact ==
    /\ tag = placed
    /\ step \in {"tag", "done"} /\ Len(entries) <= SLOTS =>
        /\ mem_info.memory_map_count = Len(entries)
        /\ \A i \in All : mem_info.map[i - 1] = entries[i]
        /\ mem_info.total_physical = Total(All)
        /\ mem_info.total_available = Total({i \in All : entries[i].type = RAM})
        /\ mem_info.first_usable =
             (IF Regions = {} THEN 0 ELSE Min({entries[i].addr : i \in Regions}))
        /\ (\A x \in Ends : x < WORD) =>
             mem_info.last_usable = Max(Ends \cup {0})
=============================================================================
