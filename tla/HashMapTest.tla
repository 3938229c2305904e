---------------------------- MODULE HashMapTest ----------------------------
(***************************************************************************)
(* The unit tests of the hash tables: Lsc_test_hashmap_string.h and        *)
(* Lsc_test_rwhashset.h, as the programs they are.  A test function is a   *)
(* sequence of loops over statements; a statement calls one operation of   *)
(* a table (module HashMap) or of the archive (module BinArchive) and      *)
(* asserts on its result.  randstr() is any string of a small set, so      *)
(* that the same string is drawn twice in some runs and never in others.   *)
(*                                                                         *)
(* The five table types the suite instantiates (hashmap and phashmap over  *)
(* the default allocator, Lsc_alloc and Lsc_cpsalloc) are the one table of *)
(* module HashMap.                                                         *)
(***************************************************************************)
EXTENDS Integers, FiniteSets, Sequences, SequencesExt, TLC

CONSTANTS
    Tables, Keys, Vals, MaxBuckets,
    HASH_INSERT_SEC, HASH_EXIST, HASH_OVERWRITE, HASH_NOEXIST,
    Full, InvalidState, OutOfMemory, DeserializationError,
    Buckets(_),     \* the model's bucket count for a capacity of the source
    Times(_)        \* the model's turn count for a loop count of the source

\* The strings randstr() returns are keys and values alike.
randstr == Keys

\* `Lsc::string val = ""`, and the result `ret`, before a call sets them.
NoString == ""

ASSUME /\ Keys = Vals
       /\ Tables = {"test", "test_0", "test0", "ht", "ht2"}
       /\ \A n \in {0, 10, 100, 10000, 32768, 100000, 102400} :
            Buckets(n) \in 0 .. MaxBuckets
       /\ \A n \in {10, 16, 90, 100, 1024, 4096, 10000, 32768} :
            Times(n) \in Nat \ {0}

VARIABLES
    created, capacity, dict, ret, out,  \* the tables (module HashMap)
    stream,     \* the file "hashtest.data" (module BinArchive)
    pc,         \* the statement the running test is at, or "idle"
    i,          \* the index of the loop at pc
    todo,       \* the keys the iteration at pc has not visited
    vec,        \* std::vector<string>: the keys test_hashmap inserted
    vmap,       \* std::map<string, string>: the reference of the other tests
    vsize       \* `size_t vsize = vec.size()` of the iterator test

T == INSTANCE BinArchive

archive == <<created, capacity, dict, ret, out, stream>>
locals  == <<i, todo, vec, vmap, vsize>>
vars    == <<archive, pc, locals>>

-----------------------------------------------------------------------------
(* The programs: the statements of each test function, in order *)

test_hashmap_ ==
    <<"ctor", "scratch", "create100", "destroy100", "create", "insert",
      "exist", "overwrite", "get", "erase", "reinsert", "overwrite_rev",
      "get_rev", "destroy">>

test_hashmap_iterator_ ==
    <<"it_create", "it_fill", "it_size", "it_check", "it_const_check",
      "it_const_get", "it_mutate", "it_size_kept", "it_recheck">>

test_hashmap_serialization_ ==
    <<"ser_create", "ser_fill", "ser_write", "ser_read", "ser_check",
      "ser_clear", "ser2_create", "ser2_read", "ser2_check", "ser2_exit",
      "ser3_read", "ser3_check", "ser3_exit">>

test_hashmap_assign_ ==
    <<"as_create", "as_fill", "as_assign", "as_check", "as_again">>

test_hashmap_clear_ ==
    <<"cl_size0", "cl_clear", "cl_exit", "cl2_create", "cl2_clear",
      "cl2_exit", "cl3_fill", "cl3_create", "cl3_assign", "cl3_clear",
      "cl3_destroy", "cl3_exit">>

test_rwhashset_ ==
    <<"rw_create", "rw_exit", "rw_zero", "rw_zero_exit", "rw_hundred",
      "rw_assign", "rw_assign_exit">>

test_create_ == <<"rc_create", "rc_create2", "rc_exit2", "rc_exit">>

Programs ==
    {test_hashmap_, test_hashmap_iterator_, test_hashmap_serialization_,
     test_hashmap_assign_, test_hashmap_clear_, test_rwhashset_, test_create_}

\* Loops over the vector, over the entries of table `test`, over the map.
VecLoops   == {"exist", "overwrite", "get", "erase", "reinsert",
               "overwrite_rev", "get_rev"}
TableLoops == {"it_check", "it_const_check", "it_mutate", "it_recheck"}
MapLoops   == {"ser_check", "ser2_check", "ser3_check", "as_check"}

\* The loop counts of the source.
Count ==
    [ctor |-> 1024, scratch |-> 1024, create100 |-> 100, destroy100 |-> 100,
     insert |-> 1024, it_fill |-> 1024, ser_fill |-> 4096, as_fill |-> 32768,
     as_again |-> 16, cl_clear |-> 10000, cl3_fill |-> 10000,
     cl3_assign |-> 10, cl3_clear |-> 10, cl3_destroy |-> 100,
     rc_create |-> 90, rc_create2 |-> 100]

\* How often the statement at a label runs; a statement outside a loop once.
Turns(label) ==
    CASE label \in VecLoops     -> Len(vec)
      [] label \in DOMAIN Count -> Times(Count[label])
      [] OTHER                  -> 1

Labels == UNION {ToSet(p) : p \in Programs}

AtEnd(label) ==
    IF label \in TableLoops \cup MapLoops THEN todo = {} ELSE i >= Turns(label)

\* The statement after the loop at `label`: the next one of its program.
After(label) ==
    LET p == CHOOSE q \in Programs : label \in ToSet(q)
        n == CHOOSE m \in DOMAIN p : p[m] = label
    IN  IF n < Len(p) THEN p[n + 1] ELSE "passed"

\* begin() of the collection the loop at `label` visits.
Begin(label) ==
    CASE label \in TableLoops -> DOMAIN dict["test"]
      [] label \in MapLoops   -> DOMAIN vmap
      [] OTHER                -> {}

\* Control is at the statement of `label`, its loop not at its end.
At(label) == pc = label /\ ~AtEnd(label)

\* __XASSERT(cond): the test goes on, or returns false.
Passes(cond) == pc' = IF cond THEN pc ELSE "failed"

\* The end of a loop body with its assertion: the next turn.
Turn(cond) ==
    /\ Passes(cond)
    /\ i' = i + 1
    /\ UNCHANGED todo

\* ... that leaves the locals of the test alone.
Checked(cond) == Turn(cond) /\ UNCHANGED <<vec, vmap, vsize>>

\* The end of the body of an iteration that stands on the entry of k.
Visit(k, cond) ==
    /\ Passes(cond)
    /\ todo' = todo \ {k}
    /\ UNCHANGED i

\* The first of two statements of a loop body, and the second.
Half(cond, label) ==
    /\ pc' = IF cond THEN label ELSE "failed"
    /\ UNCHANGED locals

Rest(cond, label) ==
    /\ pc' = IF cond THEN label ELSE "failed"
    /\ i' = i + 1
    /\ UNCHANGED <<todo, vec, vmap, vsize>>

\* A table operation; the archive file is not touched.
Op(operation) == operation /\ UNCHANGED stream

\* The destructor of a table at the end of its block.
ScopeExit(label, t) == At(label) /\ Op(T!Destruct(t)) /\ Checked(TRUE)

\* `i < n` is false: on to the next statement.
LoopExit ==
    /\ pc \in Labels /\ AtEnd(pc)
    /\ pc' = After(pc)
    /\ i' = 0
    /\ todo' = Begin(After(pc))
    /\ UNCHANGED <<archive, vec, vmap, vsize>>

-----------------------------------------------------------------------------
(* test_hashmap *)

\* `THMp test_0;` in a loop: constructed and destructed.
ctor == At("ctor") /\ Op(T!Destruct("test_0")) /\ Checked(TRUE)

\* `THMp test_0; test_0.create(10000);` in a loop, and the destructor.
scratch ==
    \/ At("scratch") /\ Op(T!create("test_0", Buckets(10000)))
                     /\ Half(TRUE, "scratch_exit")
    \/ pc = "scratch_exit" /\ Op(T!Destruct("test_0")) /\ Rest(TRUE, "scratch")

\* create(100) a hundred times, destroy() a hundred times, create(102400).
create100  == At("create100")  /\ Op(T!create("test", Buckets(100))) /\ Checked(ret' = 0)
destroy100 == At("destroy100") /\ Op(T!destroy("test")) /\ Checked(ret' = 0)
create     == At("create") /\ Op(T!create("test", Buckets(102400))) /\ Checked(ret' = 0)

\* Faulty variant: every string that was set without error is remembered.
Remembered_Any(code) == code # -1

\* `if (ret == Lsc::HASH_INSERT_SEC) vec.push_back(str)`
Remembered(code) == code = HASH_INSERT_SEC

\* The strings are set to themselves; the ones that were new are remembered.
insert ==
    /\ At("insert")
    /\ \E str \in randstr :
        /\ Op(T!set("test", str, str, FALSE))
        /\ vec' = IF Remembered(ret') THEN Append(vec, str) ELSE vec
    /\ Turn(ret' # -1)
    /\ UNCHANGED <<vmap, vsize>>

\* set(vec[i], value) on every remembered key, one result expected of all.
SetAll(label, value, overwrite, expected) ==
    /\ At(label)
    /\ Op(T!set("test", vec[i + 1], value, overwrite))
    /\ Checked(ret' = expected)

\* get(vec[i], &val) on every remembered key, one value expected of each.
GetAll(label, value) ==
    /\ At(label)
    /\ Op(T!get("test", vec[i + 1], TRUE))
    /\ Checked(ret' = HASH_EXIST /\ out' = value)

\* vec[relinsertsiz - i - 1]
Mirrored == vec[Len(vec) - i]

exist     == SetAll("exist", vec[i + 1], FALSE, HASH_EXIST)
overwrite == SetAll("overwrite", vec[i + 1], TRUE, HASH_OVERWRITE)
get       == GetAll("get", vec[i + 1])

\* erase(vec[i]) finds the key, get(vec[i]) does not find it any more.
erase ==
    \/ At("erase") /\ Op(T!erase("test", vec[i + 1]))
                   /\ Half(ret' = HASH_EXIST, "erased")
    \/ pc = "erased" /\ Op(T!get("test", vec[i + 1], FALSE))
                     /\ Rest(ret' = HASH_NOEXIST, "erase")

reinsert      == SetAll("reinsert", vec[i + 1], FALSE, HASH_INSERT_SEC)
overwrite_rev == SetAll("overwrite_rev", Mirrored, TRUE, HASH_OVERWRITE)
get_rev       == GetAll("get_rev", Mirrored)

\* `return test.destroy() == 0`
destroy == At("destroy") /\ Op(T!destroy("test")) /\ Checked(ret' = 0)

test_hashmap ==
    \/ ctor \/ scratch \/ create100 \/ destroy100 \/ create \/ insert
    \/ exist \/ overwrite \/ get \/ erase \/ reinsert \/ overwrite_rev
    \/ get_rev \/ destroy

-----------------------------------------------------------------------------
(* test_hashmap_iterator *)

\* create(n) of table t must give 0.
Create(label, t, n) == At(label) /\ Op(T!create(t, n)) /\ Checked(ret' = 0)

\* Faulty variant: the map keeps the value a key had (`vec.insert`).
Fill_KeepsFirst(label) ==
    /\ At(label)
    /\ \E key \in randstr, val \in randstr :
        /\ Op(T!set("test", key, val, TRUE))
        /\ vmap' = vmap @@ (key :> val)
    /\ Turn(ret' # -1)
    /\ UNCHANGED <<vec, vsize>>

\* `set(key, val, 1)` of two random strings, and `vec[key] = val`.
Fill(label) ==
    /\ At(label)
    /\ \E key \in randstr, val \in randstr :
        /\ Op(T!set("test", key, val, TRUE))
        /\ vmap' = (key :> val) @@ vmap
    /\ Turn(ret' # -1)
    /\ UNCHANGED <<vec, vsize>>

it_create == Create("it_create", "test", Buckets(32768))
it_fill   == Fill("it_fill")

\* `test.size() == vec.size()`
it_size ==
    /\ At("it_size")
    /\ UNCHANGED archive
    /\ Checked(T!size("test") = Cardinality(DOMAIN vmap))

\* Every entry the iterator yields is the one of the map.
Iterate(label) ==
    /\ At(label)
    /\ \E k \in todo : Visit(k, k \in DOMAIN vmap /\ vmap[k] = dict["test"][k])
    /\ UNCHANGED <<archive, vec, vmap, vsize>>

it_check       == Iterate("it_check")
it_const_check == Iterate("it_const_check")

\* `testp.get(randstr())`, and `size_t vsize = vec.size()`.
it_const_get ==
    /\ At("it_const_get")
    /\ \E str \in randstr : Op(T!get("test", str, FALSE))
    /\ vsize' = Cardinality(DOMAIN vmap)
    /\ Turn(TRUE)
    /\ UNCHANGED <<vec, vmap>>

\* `iter->second = randstr(); vec[iter->first] = iter->second;`
it_mutate ==
    /\ At("it_mutate")
    /\ \E k \in todo, val \in randstr :
        /\ Op(T!assign_through_iterator("test", k, val))
        /\ vmap' = (k :> val) @@ vmap
        /\ Visit(k, TRUE)
    /\ UNCHANGED <<vec, vsize>>

\* `vsize == vec.size()`
it_size_kept ==
    /\ At("it_size_kept")
    /\ UNCHANGED archive
    /\ Checked(vsize = Cardinality(DOMAIN vmap))

it_recheck == Iterate("it_recheck")

test_hashmap_iterator ==
    \/ it_create \/ it_fill \/ it_size \/ it_check \/ it_const_check
    \/ it_const_get \/ it_mutate \/ it_size_kept \/ it_recheck

-----------------------------------------------------------------------------
(* test_hashmap_serialization *)

ser_create == Create("ser_create", "test", Buckets(32768))
ser_fill   == Fill("ser_fill")

\* The file is opened, the table written to it, the file closed.
ser_write == At("ser_write") /\ T!write("test") /\ Checked(ret' = 0)

\* The file is read into table t, which then has the size of the map.
ReadInto(label, t) ==
    /\ At(label)
    /\ T!read(t)
    /\ Checked(ret' = 0 /\ Cardinality(DOMAIN vmap) = Cardinality(DOMAIN dict'[t]))

\* Every entry of the map, in the order of the map, is found in table t.
CheckAgainstMap(label, t) ==
    /\ At(label)
    /\ LET k == CHOOSE key \in todo : TRUE IN
        /\ Op(T!get(t, k, TRUE))
        /\ Visit(k, ret' = HASH_EXIST /\ out' = vmap[k])
    /\ UNCHANGED <<vec, vmap, vsize>>

ser_read  == ReadInto("ser_read", "test")
ser_check == CheckAgainstMap("ser_check", "test")
ser_clear == At("ser_clear") /\ Op(T!clear("test")) /\ Checked(TRUE)

\* Into a new table created with 100 buckets.
ser2_create == Create("ser2_create", "test_0", Buckets(100))
ser2_read   == ReadInto("ser2_read", "test_0")
ser2_check  == CheckAgainstMap("ser2_check", "test_0")
ser2_exit   == ScopeExit("ser2_exit", "test_0")

\* Into a new table that was not created.
ser3_read  == ReadInto("ser3_read", "test_0")
ser3_check == CheckAgainstMap("ser3_check", "test_0")
ser3_exit  == ScopeExit("ser3_exit", "test_0")

test_hashmap_serialization ==
    \/ ser_create \/ ser_fill \/ ser_write \/ ser_read \/ ser_check
    \/ ser_clear \/ ser2_create \/ ser2_read \/ ser2_check \/ ser2_exit
    \/ ser3_read \/ ser3_check \/ ser3_exit

-----------------------------------------------------------------------------
(* test_hashmap_assign and test_hashmap_clear *)

\* `vec.insert(make_pair(randstr(), randstr()))`: a key the map has stays.
Gather(label) ==
    /\ At(label)
    /\ \E key \in randstr, val \in randstr : vmap' = vmap @@ (key :> val)
    /\ UNCHANGED archive
    /\ Turn(TRUE)
    /\ UNCHANGED <<vec, vsize>>

\* `assign(vec.begin(), vec.end()) == 0`
AssignMap(label, t) ==
    /\ At(label)
    /\ Op(T!assign(t, SetToSeq({<<k, vmap[k]>> : k \in DOMAIN vmap})))
    /\ Checked(ret' = 0)

as_create == Create("as_create", "test", Buckets(102400))
as_fill   == Gather("as_fill")
as_assign == AssignMap("as_assign", "test")
as_check  == CheckAgainstMap("as_check", "test")
as_again  == AssignMap("as_again", "test")

test_hashmap_assign == as_create \/ as_fill \/ as_assign \/ as_check \/ as_again

\* `clear() == 0` and `size() == 0`
Clear(label) ==
    /\ At(label)
    /\ Op(T!clear("test0"))
    /\ Checked(ret' = 0 /\ dict'["test0"] = T!Empty)

\* Without create: `size() == 0`, then clear in a loop.
cl_size0 ==
    /\ At("cl_size0")
    /\ UNCHANGED archive
    /\ Checked(T!size("test0") = 0)

cl_clear == Clear("cl_clear")
cl_exit  == ScopeExit("cl_exit", "test0")

\* After create(100000).
cl2_create ==
    /\ At("cl2_create")
    /\ Op(T!create("test0", Buckets(100000)))
    /\ Checked(T!size("test0") = 0 /\ ret' = 0 /\ dict'["test0"] = T!Empty)

cl2_clear == Clear("cl2_clear")
cl2_exit  == ScopeExit("cl2_exit", "test0")

\* With entries: create(vmap.size() * 2), assign, clear, destroy.
cl3_fill    == Gather("cl3_fill")
cl3_create  == Create("cl3_create", "test0", Cardinality(DOMAIN vmap) * 2)
cl3_assign  == AssignMap("cl3_assign", "test0")
cl3_clear   == Clear("cl3_clear")
cl3_destroy == At("cl3_destroy") /\ Op(T!destroy("test0")) /\ Checked(ret' = 0)
cl3_exit    == ScopeExit("cl3_exit", "test0")

test_hashmap_clear ==
    \/ cl_size0 \/ cl_clear \/ cl_exit \/ cl2_create \/ cl2_clear \/ cl2_exit
    \/ cl3_fill \/ cl3_create \/ cl3_assign \/ cl3_clear \/ cl3_destroy
    \/ cl3_exit

-----------------------------------------------------------------------------
(* Lsc_test_rwhashset.h *)

\* `hash_type ht; ht.create(100)`, and the destructor.
rw_create == Create("rw_create", "ht", Buckets(100))
rw_exit   == ScopeExit("rw_exit", "ht")

\* `hash_type ht(0)` under try: the constructor creates 0 buckets; what it
\* throws is caught.
rw_zero      == At("rw_zero") /\ Op(T!create("ht", Buckets(0))) /\ Checked(TRUE)
rw_zero_exit == ScopeExit("rw_zero_exit", "ht")

\* `hash_type ht(100)` and the assign of an empty std::set.
rw_hundred     == At("rw_hundred") /\ Op(T!create("ht", Buckets(100))) /\ Checked(TRUE)
rw_assign      == At("rw_assign") /\ Op(T!assign("ht", <<>>)) /\ Checked(TRUE)
rw_assign_exit == ScopeExit("rw_assign_exit", "ht")

test_rwhashset ==
    \/ rw_create \/ rw_exit \/ rw_zero \/ rw_zero_exit \/ rw_hundred
    \/ rw_assign \/ rw_assign_exit

\* create(i) for i = 10 .. 99 on ht, for i = 0 .. 99 on ht2; no result is
\* looked at.
rc_create  == At("rc_create")  /\ Op(T!create("ht", Buckets(10 + i))) /\ Checked(TRUE)
rc_create2 == At("rc_create2") /\ Op(T!create("ht2", Buckets(i))) /\ Checked(TRUE)
rc_exit2   == ScopeExit("rc_exit2", "ht2")
rc_exit    == ScopeExit("rc_exit", "ht")

test_create == rc_create \/ rc_create2 \/ rc_exit2 \/ rc_exit

-----------------------------------------------------------------------------
(* The suite *)

\* A test method of the suite calls its test function.
RunTest ==
    /\ pc = "idle"
    /\ \E p \in Programs : pc' = p[1]
    /\ UNCHANGED <<archive, locals>>

\* The test function returns: its locals go out of scope, the tables that
\* are left are destructed, TSM_ASSERT takes the result.  The file stays.
Return ==
    /\ pc \in {"passed", "failed"}
    /\ pc' = "idle"
    /\ i' = 0 /\ todo' = {} /\ vec' = <<>> /\ vmap' = <<>> /\ vsize' = 0
    /\ ret' = 0 /\ out' = NoString
    /\ created'  = [t \in Tables |-> FALSE]
    /\ capacity' = [t \in Tables |-> 0]
    /\ dict'     = [t \in Tables |-> T!Empty]
    /\ UNCHANGED stream

Init ==
    /\ created  = [t \in Tables |-> FALSE]
    /\ capacity = [t \in Tables |-> 0]
    /\ dict     = [t \in Tables |-> T!Empty]
    /\ ret = 0
    /\ out = NoString
    /\ stream = <<>>
    /\ pc = "idle"
    /\ i = 0 /\ todo = {} /\ vec = <<>> /\ vmap = <<>> /\ vsize = 0

Next ==
    \/ RunTest \/ LoopExit \/ Return
    \/ test_hashmap \/ test_hashmap_iterator \/ test_hashmap_serialization
    \/ test_hashmap_assign \/ test_hashmap_clear
    \/ test_rwhashset \/ test_create

\* A test is sequential code that nothing holds up.
Spec == Init /\ [][Next]_vars

-----------------------------------------------------------------------------
(* Properties *)

TypeOK ==
    /\ created \in [Tables -> BOOLEAN]
    /\ capacity \in [Tables -> 0 .. MaxBuckets]
    /\ \A t \in Tables :
        /\ DOMAIN dict[t] \subseteq Keys
        /\ \A k \in DOMAIN dict[t] : dict[t][k] \in Vals
        /\ T!size(t) <= capacity[t]
    /\ out \in Vals \cup {NoString}
    /\ pc \in Labels \cup {"idle", "passed", "failed", "scratch_exit", "erased"}
    /\ i \in Nat /\ todo \subseteq Keys /\ vsize \in Nat
    /\ vec \in Seq(Keys)
    /\ DOMAIN vmap \subseteq Keys /\ \A k \in DOMAIN vmap : vmap[k] \in Vals

\* No assertion of a test fails, whatever strings randstr() returns and
\* however often it returns the same one: no __XASSERT makes a test
\* function return false.
TestsPass == pc # "failed"

\* The statements at which a table must hold what the std::map holds.
Mirror ==
    [l \in {"it_fill", "it_size", "it_check", "it_const_check", "it_const_get",
            "it_mutate", "it_size_kept", "it_recheck", "ser_fill", "ser_write",
            "ser_read", "ser_check", "as_check", "as_again"} |-> "test"]
    @@ [l \in {"ser2_check", "ser3_check"} |-> "test_0"]

\* The collection a test keeps beside the table is the table: the vector of
\* test_hashmap lists every key of the table once while the keys are set
\* and read again, and the std::map of the other tests has the entries of
\* the table while it is filled, iterated, assigned through iterators,
\* written and read back.  The assertions of the loops rest on it.
ReferenceMatchesTable ==
    /\ pc \in {"exist", "overwrite", "get"} =>
            IsInjective(vec) /\ ToSet(vec) = DOMAIN dict["test"]
    /\ pc \in DOMAIN Mirror => dict[Mirror[pc]] = vmap

=============================================================================
