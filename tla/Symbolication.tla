---------------------------- MODULE Symbolication ----------------------------
(***************************************************************************)
(* How the crash report names the functions on a stack: the writer asks    *)
(* for each frame's symbol several times, to learn the sizes of its        *)
(* messages and to write them, and each answer is searched for in the      *)
(* symbol table and in the Objective-C classes of the frame's image.       *)
(*                                                                         *)
(* The threads of the process are suspended, so what is read never         *)
(* changes; what is kept from one lookup to the next is the cache.         *)
(***************************************************************************)
EXTENDS MachOSymbols, FiniteSets, FiniteSetsExt

CONSTANTS
    Images,
    Processes,      \* what may be found in memory: the images, the class_rw_t and class_ro_t
    Strategies,     \* subsets of {"symtab", "objc"}
    MaxFrames,      \* bound: the length of a stack
    CacheSize,      \* 1024: the slots of the class cache
    MaxFailures     \* bound: how often vm_allocate fails

None == "none"
Sections == <<"const", "classlist", "catlist", "data">>
SectionNames == ToSet(Sections)
Position(section) == CHOOSE k \in DOMAIN Sections : Sections[k] = section

\* An image has all sections, of which those up to its field mapped can be mapped.
HasSections(i) == \A s \in SectionNames : Position(s) <= i.mapped

ASSUME SymbolicationAssumption ==
    /\ CacheSize \in Nat \ {0} /\ MaxFrames \in Nat /\ MaxFailures \in Nat
    /\ Strategies \subseteq (SUBSET {"symtab", "objc"}) \ {{}}
    /\ \A p \in Processes : DOMAIN p.images = Images

\* The lists of an image are sequences, and hold addresses.
ASSUME ListAssumption ==
    /\ None \notin Images
    /\ \A p \in Processes : \A i \in Images :
          /\ p.images[i].classlist \in Seq([class : Nat, metaclass : Nat])
          /\ LET list == p.images[i].catlist
             IN Len(list) \in Nat /\ DOMAIN list = 1 .. Len(list) /\ \A k \in DOMAIN list : list[k].class \in Nat

\* What is looked for is code: its lists are sequences, and none of it begins at address 0.
IsList(list) == list \in Seq(ToSet(list))
HasCode(imps) == imps \in Seq(Nat \ {0})

ASSUME CodeAssumption ==
    \A p \in Processes :
        /\ \A r \in DOMAIN p.ro : HasCode(p.ro[r].list.imps)
        /\ \A i \in Images :
              LET m == p.images[i] IN
              /\ p.pcs[i] \subseteq Nat /\ m.slide \in Int
              /\ IsList(m.symtab)
              /\ \A e \in ToSet(m.symtab) :
                    e.value \in Nat /\ e.thumb \in BOOLEAN /\ (e.kind = "section" => e.value + m.slide > 0)
              /\ \A range \in {m.global, m.local} : range.first \in Nat \ {0} /\ range.count \in Nat
              /\ IsList(m.modules) /\ \A o \in ToSet(m.modules) : HasCode(o.imps) /\ HasCode(o.meta)
              /\ IsList(m.catlist) /\ \A c \in ToSet(m.catlist) :
                    IsList(c.lists) /\ \A list \in ToSet(c.lists) : HasCode(list.imps)

\* A process has one of the two runtimes: where there is Objective-C 2 metadata to be
\* found, none is in the older format (the comment at gotObjC2Info).
ASSUME RuntimeAssumption ==
    \A p \in Processes : \/ \A i \in Images : p.images[i].modules = << >>
                        \/ \A i \in Images : ~ HasSections(p.images[i])

VARIABLES
    process, strategy, stack,   \* the process, the writer's strategy, the frames of a thread
    cache,      \* apigee_plcrash_async_objc_cache_t
    live,       \* for each section how many mappings of it exist
    failures,
    turn,       \* where the writer is
    rv,         \* what write_thread_frame adds up: a symbol's message and its header
    sizes,      \* the frame's announced size, and those of the thread's frames
    stage, at, err, search, answer      \* where a lookup is, and what it has found

writer == <<stack, turn, rv, sizes>>
lookup == <<stage, at, err, search, answer>>
vars == <<process, strategy, cache, live, failures, writer, lookup>>

frame == stack[turn.frame]
image == process.images[frame.image]

Nothing == [header |-> NoSymbol, body |-> NoSymbol]
NotMapped == [s \in SectionNames |-> FALSE]

\* apigee_plcrash_async_objc_cache_init.
EmptyCache ==
    [gotObjC2Info |-> FALSE, lastImage |-> None, initialized |-> NotMapped,
     mobj |-> [s \in SectionNames |-> None], table |-> << >>]

TypeOK ==
    /\ DOMAIN process.images = Images /\ strategy \in Strategies
    /\ cache.gotObjC2Info \in BOOLEAN
    /\ cache.lastImage \in Images \cup {None}
    /\ cache.initialized \in [SectionNames -> BOOLEAN]
    /\ cache.mobj \in [SectionNames -> Images \cup {None}]
    /\ DOMAIN cache.table \in {{}, 0 .. CacheSize - 1}
    /\ failures \in 0 .. MaxFailures
    /\ turn \in [pass : {"size", "write"}, frame : 1 .. MaxFrames, message : BOOLEAN, call : 1 .. 2]
    /\ stage \in {"macho", "modules", "map", "class", "metaclass", "category", "parsed",
                  "answer", "packed", "written", "freed"}
    /\ err \in {"ESUCCESS", "ENOTFOUND", "EINVALID_DATA"}
    /\ search.parse \in {"search", "call"} /\ search.called \in BOOLEAN
    /\ answer.ok \in BOOLEAN

FirstTurn == [pass |-> "size", frame |-> 1, message |-> FALSE, call |-> 1]

\* The frames whose image the image list finds by their pc.
FramesOf(p) == {[image |-> i, pc |-> x] : i \in Images, x \in UNION {p.pcs[i] : i \in Images}}
Stacks(p) ==
    UNION {[1 .. n -> {f \in FramesOf(p) : contains_address(p.images[f.image], f.pc)}] : n \in 1 .. MaxFrames}

Init ==
    /\ process \in Processes /\ strategy \in Strategies
    /\ stack \in Stacks(process)
    /\ cache = EmptyCache
    /\ live = [s \in SectionNames |-> 0]
    /\ failures = 0
    /\ turn = FirstTurn
    /\ rv = Nothing
    /\ sizes = [frame |-> Nothing, thread |-> << >>]
    /\ stage = "macho" /\ at = 1 /\ err = "ESUCCESS"
    /\ search = [parse |-> "search", best |-> 0, called |-> FALSE]
    /\ answer = [ok |-> FALSE, symbol |-> NoSymbol]

----------------------------------------------------------------------------
(* The cache of classes: from the address of a class_rw_t to the one of    *)
(* its class_ro_t.                                                         *)

cache_index(key) == (key \div 4) % CacheSize

\* Fault: whatever key a slot holds.
FaultyLookup(key) == IF cache.table = << >> THEN 0 ELSE cache.table[cache_index(key)].ro

cache_lookup(key) ==
    IF cache.table = << >> THEN 0
    ELSE LET slot == cache.table[cache_index(key)] IN IF slot.key = key THEN slot.ro ELSE 0

\* An occupied slot stays as it is; the table is allocated when it is first needed.
cache_set(key, ro) ==
    LET empty == [k \in 0 .. CacheSize - 1 |-> [key |-> 0, ro |-> 0]]
        table == IF cache.table = << >> THEN empty ELSE cache.table
        i == cache_index(key)
    IN
    \/ /\ cache' = [cache EXCEPT !.table = IF table[i].key # 0 THEN table
                                           ELSE [table EXCEPT ![i] = [key |-> key, ro |-> ro]]]
       /\ UNCHANGED failures
    \/ /\ cache.table = << >> /\ failures < MaxFailures
       /\ failures' = failures + 1
       /\ UNCHANGED cache

----------------------------------------------------------------------------
(* find_symbol and its callbacks.                                          *)

\* The symbol table comes first; an answer that was begun anew holds nothing.
searchSymbolTable ==
    /\ stage = "macho"
    /\ LET found == IF "symtab" \in strategy THEN find_symbol_by_pc(image, frame.pc) ELSE NoSymbol
       IN answer' = [ok |-> found # NoSymbol, symbol |-> found]
    /\ stage' = IF "objc" \in strategy THEN "modules" ELSE "answer"
    /\ search' = [parse |-> "search", best |-> 0, called |-> FALSE]
    /\ UNCHANGED <<process, strategy, cache, live, failures, writer, at, err>>

\* objc_symbol_callback: a better match that was found stays.
objc_symbol_callback(method) ==
    IF answer.symbol # NoSymbol /\ method.imp < answer.symbol.address THEN answer
    ELSE [answer EXCEPT !.symbol = [address |-> method.imp, name |-> method.name]]

\* The first of some methods that begins at an address, 0 if none does.
FirstWith(methods, imp) == SelectInSeq(methods, LAMBDA m : m.imp = imp)

\* The callbacks of find_method's two parses, for some methods: the first looks for the
\* greatest IMP up to the pc, the second reports the first method that has it.
callback(methods) ==
    LET imps == {m.imp : m \in ToSet(methods)}
        first == FirstWith(methods, search.best)
    IN IF search.parse = "search"
       THEN /\ search' = [search EXCEPT !.best = Max({@} \cup {i \in imps : i <= frame.pc})]
            /\ UNCHANGED answer
       ELSE /\ search' = [search EXCEPT !.called = @ \/ first # 0]
            /\ answer' = IF first = 0 \/ search.called THEN answer
                         ELSE objc_symbol_callback(methods[first])

Methods(imps, owner, meta) ==
    [k \in DOMAIN imps |-> [imp |-> imps[k], name |-> <<"method", owner, meta>>]]

----------------------------------------------------------------------------
(* Objective-C 1 metadata.                                                 *)

\* The classes of all modules, each followed by its metaclass; not when an image was
\* found to have Objective-C 2 metadata.
parse_from_module_info ==
    /\ stage = "modules"
    /\ \/ /\ ~ cache.gotObjC2Info /\ image.modules # << >>
          /\ callback(FlattenSeq([k \in DOMAIN image.modules |->
                         Methods(image.modules[k].imps, k, FALSE) \o
                         Methods(image.modules[k].meta, k, TRUE)]))
          /\ err' = "ESUCCESS"
          /\ stage' = "parsed"
       \/ /\ cache.gotObjC2Info \/ image.modules = << >>
          /\ stage' = "map"
          /\ UNCHANGED <<search, answer, err>>
    /\ UNCHANGED <<process, strategy, cache, live, failures, writer, at>>

----------------------------------------------------------------------------
(* Objective-C 2 metadata: its four sections stay mapped until another     *)
(* image is searched.                                                      *)

Freed == [s \in SectionNames |-> live[s] - (IF cache.initialized[s] THEN 1 ELSE 0)]

\* Fault: the last image is not forgotten when a section of the next one is missing.
FaultyMapped(i, mapped) ==
    [cache EXCEPT !.lastImage = IF mapped = SectionNames THEN i ELSE @,
                  !.initialized = [s \in SectionNames |-> s \in mapped],
                  !.mobj = [s \in SectionNames |-> IF s \in mapped THEN i ELSE @[s]]]

\* The cache after some sections of an image were mapped in place of the last image's.
Mapped(i, mapped) ==
    [cache EXCEPT !.lastImage = IF mapped = SectionNames THEN i ELSE None,
                  !.initialized = [s \in SectionNames |-> s \in mapped],
                  !.mobj = [s \in SectionNames |-> IF s \in mapped THEN i ELSE @[s]]]

\* The sections are mapped in order, up to the first that the image does not have.
map_sections ==
    /\ stage = "map"
    /\ LET mapped == {s \in SectionNames : Position(s) <= image.mapped} IN
       \/ /\ cache.lastImage = frame.image
          /\ err' = "ESUCCESS" /\ stage' = "class"
          /\ UNCHANGED <<cache, live>>
       \/ /\ cache.lastImage # frame.image
          /\ cache' = Mapped(frame.image, mapped)
          /\ live' = [s \in SectionNames |-> Freed[s] + (IF s \in mapped THEN 1 ELSE 0)]
          /\ err' = IF mapped = SectionNames THEN "ESUCCESS" ELSE "ENOTFOUND"
          /\ stage' = IF mapped = SectionNames THEN "class" ELSE "parsed"
    /\ at' = 1
    /\ UNCHANGED <<process, strategy, failures, writer, search, answer>>

\* What parse_objc2_class returns for the class_rw_t at an address. What cannot be read
\* is not in the domain of rw or ro.
ClassError(rw) ==
    IF cache_lookup(rw) # 0 THEN "ESUCCESS"
    ELSE IF rw \notin DOMAIN process.rw THEN "EINVALID_DATA"
    ELSE IF ~ process.rw[rw].realized THEN "ENOTFOUND"
    ELSE IF process.rw[rw].ro \notin DOMAIN process.ro THEN "EINVALID_DATA"
    ELSE "ESUCCESS"

ClassData(rw) ==
    process.ro[IF cache_lookup(rw) # 0 THEN cache_lookup(rw) ELSE process.rw[rw].ro]

parse_objc2_class(rw) ==
    IF ClassError(rw) = "ESUCCESS" /\ cache_lookup(rw) = 0 THEN cache_set(rw, process.rw[rw].ro)
    ELSE UNCHANGED <<cache, failures>>

\* A list without methods is a null pointer.
IsMapped(list) == list.imps = << >> \/ cache.mobj["const"] = list.home

\* The methods of some lists, up to the first that is not in the mapped section.
parse_objc2_method_lists(lists, owner) ==
    LET unmapped == {k \in DOMAIN lists : ~ IsMapped(lists[k])}
        parsed == IF unmapped = {} THEN lists ELSE SubSeq(lists, 1, Min(unmapped) - 1)
    IN /\ callback(FlattenSeq([k \in DOMAIN parsed |-> Methods(parsed[k].imps, owner, parsed[k].meta)]))
       /\ err' = IF unmapped = {} THEN "ESUCCESS" ELSE "EINVALID_DATA"

\* A class is parsed, and if that succeeds some lists of methods of it.
parse_with_class(rw, lists) ==
    /\ parse_objc2_class(rw)
    /\ IF ClassError(rw) = "ESUCCESS"
       THEN parse_objc2_method_lists(lists, ClassData(rw).name)
       ELSE err' = ClassError(rw) /\ UNCHANGED <<search, answer>>

parse_objc2_class_methods(rw, meta) ==
    LET base == ClassData(rw).list
    IN parse_with_class(rw, <<[home |-> base.home, imps |-> base.imps, meta |-> meta]>>)

classes == process.images[cache.mobj["classlist"]].classlist
categories == process.images[cache.mobj["catlist"]].catlist

\* A class that is not realized is skipped with its metaclass.
parseClass ==
    /\ stage = "class" /\ at <= Len(classes)
    /\ parse_objc2_class_methods(classes[at].class, FALSE)
    /\ stage' = CASE err' = "ESUCCESS" -> "metaclass"
                  [] err' = "ENOTFOUND" -> "class"
                  [] OTHER -> "parsed"
    /\ at' = IF err' = "ENOTFOUND" THEN at + 1 ELSE at
    /\ UNCHANGED <<process, strategy, live, writer>>

parseMetaclass ==
    /\ stage = "metaclass"
    /\ parse_objc2_class_methods(classes[at].metaclass, TRUE)
    /\ stage' = IF err' = "ESUCCESS" THEN "class" ELSE "parsed"
    /\ at' = at + 1
    /\ UNCHANGED <<process, strategy, live, writer>>

endOfClasses ==
    /\ stage = "class" /\ at > Len(classes)
    /\ stage' = "category" /\ at' = 1
    /\ UNCHANGED <<process, strategy, cache, live, failures, writer, err, search, answer>>

\* Of the class only the name is used; it may be another image's.
parseCategory ==
    /\ stage = "category" /\ at <= Len(categories)
    /\ parse_with_class(categories[at].class, categories[at].lists)
    /\ stage' = IF err' \in {"ESUCCESS", "ENOTFOUND"} THEN "category" ELSE "parsed"
    /\ at' = at + 1
    /\ UNCHANGED <<process, strategy, live, writer>>

\* What is returned is the error of the last item, were it one that was skipped.
endOfCategories ==
    /\ stage = "category" /\ at > Len(categories)
    /\ cache' = [cache EXCEPT !.gotObjC2Info = @ \/ err = "ESUCCESS"]
    /\ stage' = "parsed"
    /\ UNCHANGED <<process, strategy, live, failures, writer, at, err, search, answer>>

\* Between and after the two parses of apigee_plcrash_async_objc_find_method.
find_method ==
    /\ stage = "parsed"
    /\ IF search.parse = "search" /\ err = "ESUCCESS" /\ search.best # 0
       THEN /\ search' = [search EXCEPT !.parse = "call"]
            /\ stage' = "modules"
            /\ UNCHANGED answer
       ELSE /\ stage' = "answer"
            /\ answer' = [answer EXCEPT !.ok = @ \/ (search.parse = "call" /\ err = "ESUCCESS")]
            /\ UNCHANGED search
    /\ UNCHANGED <<process, strategy, cache, live, failures, writer, at, err>>

----------------------------------------------------------------------------
(* The writer.                                                             *)

IsFound == answer.ok /\ answer.symbol # NoSymbol

\* write_thread_frame: the first lookup tells the size of the symbol's message, which its
\* header holds, the second packs the message.
write_thread_frame ==
    /\ stage = "answer"
    /\ rv' = IF ~ IsFound THEN rv
             ELSE IF turn.call = 1 THEN [rv EXCEPT !.header = answer.symbol]
             ELSE [rv EXCEPT !.body = answer.symbol]
    /\ IF IsFound /\ turn.call = 1
       THEN turn' = [turn EXCEPT !.call = 2] /\ stage' = "macho"
       ELSE UNCHANGED turn /\ stage' = "packed"
    /\ UNCHANGED <<process, strategy, cache, live, failures, stack, sizes, at, err, search, answer>>

\* write_thread: each frame is packed twice, once for its size; and the thread is, too.
write_thread ==
    /\ stage = "packed"
    /\ LET last == turn.message /\ turn.frame = Len(stack) IN
       /\ turn' = IF ~ turn.message THEN [turn EXCEPT !.message = TRUE, !.call = 1]
                  ELSE IF ~ last THEN [turn EXCEPT !.frame = @ + 1, !.message = FALSE, !.call = 1]
                  ELSE [FirstTurn EXCEPT !.pass = "write"]
       /\ stage' = IF last /\ turn.pass = "write" THEN "written" ELSE "macho"
       /\ sizes' = IF ~ turn.message THEN [sizes EXCEPT !.frame = rv]
                   ELSE IF turn.pass = "size" THEN [sizes EXCEPT !.thread = Append(@, rv)]
                   ELSE sizes
    /\ rv' = Nothing
    /\ UNCHANGED <<process, strategy, cache, live, failures, stack, at, err, search, answer>>

\* apigee_plcrash_async_objc_cache_free, at the end of the report.
cache_free ==
    /\ stage = "written"
    /\ live' = Freed
    /\ cache' = [cache EXCEPT !.initialized = NotMapped]
    /\ stage' = "freed"
    /\ UNCHANGED <<process, strategy, failures, writer, at, err, search, answer>>

Next ==
    \/ searchSymbolTable \/ parse_from_module_info \/ map_sections
    \/ parseClass \/ parseMetaclass \/ endOfClasses \/ parseCategory \/ endOfCategories
    \/ find_method \/ write_thread_frame \/ write_thread \/ cache_free

Spec == Init /\ [][Next]_vars

----------------------------------------------------------------------------
(* Properties.                                                             *)

\* What is said to be mapped is mapped once, of one image if that is the last one, and
\* nothing once the cache is freed: map_sections returns early and in between.
CacheIsSound ==
    /\ \A s \in SectionNames : live[s] = IF cache.initialized[s] THEN 1 ELSE 0
    /\ cache.lastImage # None /\ stage # "freed" =>
          \A s \in SectionNames : cache.initialized[s] /\ cache.mobj[s] = cache.lastImage

\* The types of the variables, and the soundness of the cache.
CacheOK == TypeOK /\ CacheIsSound

\* The inductive invariant: also the shapes of the records, and the frame is one of the stack's.
IndInv ==
    /\ CacheOK
    /\ cache = [gotObjC2Info |-> cache.gotObjC2Info, lastImage |-> cache.lastImage,
                initialized |-> cache.initialized, mobj |-> cache.mobj, table |-> cache.table]
    /\ cache.table = << >> \/ DOMAIN cache.table = 0 .. CacheSize - 1
    /\ search = [parse |-> search.parse, best |-> search.best, called |-> search.called]
    /\ answer = [ok |-> answer.ok, symbol |-> answer.symbol]
    /\ Len(stack) \in 1 .. MaxFrames /\ turn.frame <= Len(stack)
    /\ \A k \in 1 .. Len(stack) : stack[k].image \in Images

\* Where Objective-C 2 metadata can be read, and what the cache holds of it:
Realized(rw) == rw \in DOMAIN process.rw /\ process.rw[rw].realized /\ process.rw[rw].ro \in DOMAIN process.ro

\* A class of the cache is one of the process; the last image has all sections, and is the
\* one whose lists are parsed.
CacheIsTrue ==
    /\ \A k \in DOMAIN cache.table :
          LET slot == cache.table[k]
          IN slot.ro # 0 => Realized(slot.key) /\ slot.ro = process.rw[slot.key].ro
    /\ cache.lastImage # None => HasSections(process.images[cache.lastImage])
    /\ cache.gotObjC2Info => \E i \in Images : HasSections(process.images[i])
    /\ stage \in {"class", "metaclass", "category"} => cache.lastImage = frame.image /\ at \in Nat \ {0}
    /\ stage = "metaclass" => at <= Len(image.classlist)

\* A message that follows its size has that size, although each is made of a lookup of its
\* own with a cache that has changed in between: a symbol's, a frame's and a thread's.
FramesFitTheirSize ==
    stage = "packed" =>
        /\ rv.header = rv.body
        /\ turn.message => rv = sizes.frame
        /\ turn.pass = "write" /\ turn.message => rv = sizes.thread[turn.frame]

\* The entries of the symbol table and the methods of the realized classes of an image.
Entries(i) ==
    IF ~ IsReadable(i) THEN {}
    ELSE {e \in ToSet(SymbolsIn(i, i.global)) \cup ToSet(SymbolsIn(i, i.local)) : e.kind = "section"}
Own(rw, meta) ==
    IF ~ Realized(rw) THEN {} ELSE
    LET data == process.ro[process.rw[rw].ro]
    IN {[imp |-> imp, name |-> <<"method", data.name, meta>>] : imp \in ToSet(data.list.imps)}
OfCategory(c) ==
    IF ~ Realized(c.class) THEN {} ELSE
    UNION {{[imp |-> imp, name |-> <<"method", process.ro[process.rw[c.class].ro].name, list.meta>>] :
                imp \in ToSet(list.imps)} : list \in ToSet(c.lists)}
MethodsIn(i) ==
    (UNION {Own(c.class, FALSE) \cup Own(c.metaclass, TRUE) : c \in ToSet(i.classlist)})
      \cup (UNION {OfCategory(c) : c \in ToSet(i.catlist)})
      \cup (UNION {ToSet(Methods(i.modules[k].imps, k, FALSE) \o Methods(i.modules[k].meta, k, TRUE)) :
                      k \in DOMAIN i.modules})

\* The symbols an image has, by the address they are said to begin at.
SymbolsOf(i) ==
    (IF "symtab" \notin strategy THEN {}
     ELSE {[address |-> normalized_value(e) + i.slide, name |-> e.name, start |-> e.value + i.slide] :
             e \in Entries(i)})
      \cup
    (IF "objc" \notin strategy THEN {}
     ELSE {[address |-> m.imp, name |-> m.name, start |-> m.imp - (m.imp % 2)] : m \in MethodsIn(i)})

\* A class that is not realized is skipped; of one that is, the data can be read.
IsParsed(rw) == rw \in DOMAIN process.rw /\ (process.rw[rw].realized => Realized(rw))

\* Methods are read in the section of the image that is mapped.
IsItsOwn(list) == list.imps = << >> \/ list.home = frame.image
ListOf(rw) == process.ro[process.rw[rw].ro].list

\* Where the Objective-C metadata of the frame's image can be searched to its end.
IsSearchable ==
    \/ "objc" \notin strategy
    \/ image.classlist = << >> /\ image.catlist = << >>
    \/ /\ image.mapped = Len(Sections)
       /\ \A c \in ToSet(image.classlist) :
             /\ IsParsed(c.class) /\ (Realized(c.class) <=> Realized(c.metaclass))
             /\ Realized(c.class) => IsItsOwn(ListOf(c.class)) /\ IsItsOwn(ListOf(c.metaclass))
       /\ \A c \in ToSet(image.catlist) :
             IsParsed(c.class) /\ (Realized(c.class) => \A list \in ToSet(c.lists) : IsItsOwn(list))
       /\ IF image.catlist # << >> THEN Realized(Last(image.catlist).class)
          ELSE image.classlist # << >> => Realized(Last(image.classlist).class)

\* Where no symbol begins inside the first instruction of a Thumb method.
IsDisjoint(m) == m.imp % 2 = 1 => \A e \in Entries(image) : e.value + image.slide # m.imp

IsNearest ==
    LET before == {s \in SymbolsOf(image) : s.start <= frame.pc}
        nearest == {s \in before : \A t \in before : t.start <= s.start}
    IN IF before = {} THEN ~ IsFound
       ELSE IsFound /\ \E s \in nearest : answer.symbol = [address |-> s.address, name |-> s.name]

\* A lookup names the symbol that begins closest before the pc, wherever it is found; not
\* where the metadata is not searched to its end, nor at the first instruction of a Thumb
\* method, whose IMP is greater than the pc, nor where a symbol begins inside of that.
NearestSymbolIsNamed ==
    /\ stage = "answer" /\ IsSearchable
    /\ \A m \in MethodsIn(image) : m.imp # frame.pc + 1 /\ IsDisjoint(m)
    => IsNearest

\* The same for every image whose sections are mapped: false, since the error of a last class
\* or category that is skipped, being not realized, is what the search returns.
MethodsAreFound == stage = "answer" /\ image.mapped = Len(Sections) => IsNearest
=============================================================================
