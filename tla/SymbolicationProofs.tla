------------------------ MODULE SymbolicationProofs ------------------------
(***************************************************************************)
(* The cache of a symbolication is sound and true for any process, any     *)
(* stack, any size of the class cache and wherever an allocation fails;    *)
(* so that all the lookups for a frame come to the same answer, what is    *)
(* written fits the size that was announced for it, and the symbol that is *)
(* named is the one that begins closest before the pc.                     *)
(***************************************************************************)
EXTENDS Symbolication, NaturalsInduction, SequenceTheorems, WellFoundedInduction, TLAPS

Names == {"const", "classlist", "catlist", "data"}

LEMMA NamesOfSections == SectionNames = Names
BY DEF SectionNames, Sections, Names, ToSet

LEMMA InitInv == Init => IndInv
<1> SUFFICES ASSUME Init PROVE IndInv
  OBVIOUS
<1>1. PICK n \in 1 .. MaxFrames : stack \in [1 .. n -> FramesOf(process)]
  BY DEF Init, Stacks
<1>2. Len(stack) = n /\ \A k \in 1 .. n : stack[k].image \in Images
  BY <1>1, SymbolicationAssumption DEF FramesOf
<1>3. TypeOK
  BY <1>1, SymbolicationAssumption DEF Init, TypeOK, EmptyCache, NotMapped, FirstTurn
<1>4. CacheIsSound
  BY DEF Init, CacheIsSound, EmptyCache, NotMapped
<1> QED
  BY <1>1, <1>2, <1>3, <1>4, SymbolicationAssumption DEF Init, IndInv, CacheOK, EmptyCache, FirstTurn

\* What a frame that a lookup is under way for tells.
LEMMA FrameHasImage ==
    ASSUME IndInv
    PROVE  frame.image \in Images
BY DEF IndInv, CacheOK, TypeOK, frame

----------------------------------------------------------------------------
(* What changes the cache.                                                 *)

\* A class is entered: only the table of classes changes, and stays one.
LEMMA EnterClass ==
    ASSUME IndInv, NEW key, NEW ro, cache_set(key, ro)
    PROVE  /\ failures' \in 0 .. MaxFailures
           /\ cache' = [cache EXCEPT !.table = cache'.table]
           /\ cache'.table = << >> \/ DOMAIN cache'.table = 0 .. CacheSize - 1
<1> DEFINE empty == [k \in 0 .. CacheSize - 1 |-> [key |-> 0, ro |-> 0]]
           table == IF cache.table = << >> THEN empty ELSE cache.table
           i == cache_index(key)
           entered == IF table[i].key # 0 THEN table ELSE [table EXCEPT ![i] = [key |-> key, ro |-> ro]]
<1>1. DOMAIN table = 0 .. CacheSize - 1
  BY DEF IndInv
<1>2. DOMAIN entered = 0 .. CacheSize - 1
  BY <1>1
<1>3. \/ cache' = [cache EXCEPT !.table = entered] /\ UNCHANGED failures
      \/ failures < MaxFailures /\ failures' = failures + 1 /\ UNCHANGED cache
  BY DEF cache_set
<1>4. failures \in 0 .. MaxFailures /\ MaxFailures \in Nat
  BY SymbolicationAssumption DEF IndInv, CacheOK, TypeOK
<1> HIDE DEF entered
<1>5. CASE cache' = [cache EXCEPT !.table = entered] /\ UNCHANGED failures
  <2>1. cache'.table = entered
    BY <1>5 DEF IndInv
  <2> QED
    BY <1>2, <1>4, <1>5, <2>1
<1>6. CASE failures < MaxFailures /\ failures' = failures + 1 /\ UNCHANGED cache
  BY <1>4, <1>6 DEF IndInv
<1> QED
  BY <1>3, <1>5, <1>6

LEMMA ParseClass ==
    ASSUME IndInv, NEW rw, parse_objc2_class(rw)
    PROVE  /\ failures' \in 0 .. MaxFailures
           /\ cache' = [cache EXCEPT !.table = cache'.table]
           /\ cache'.table = << >> \/ DOMAIN cache'.table = 0 .. CacheSize - 1
<1>1. CASE cache_set(rw, process.rw[rw].ro)
  BY <1>1, EnterClass
<1>2. CASE UNCHANGED <<cache, failures>>
  BY <1>2 DEF IndInv, CacheOK, TypeOK
<1> QED
  BY <1>1, <1>2 DEF parse_objc2_class

\* What does not change the mapped sections keeps the cache sound.
LEMMA SameSections ==
    ASSUME IndInv, UNCHANGED live, stage # "freed", stage' # "freed",
           cache' = [cache EXCEPT !.table = cache'.table]
    PROVE  CacheIsSound'
<1>1. cache'.initialized = cache.initialized /\ cache'.mobj = cache.mobj /\ cache'.lastImage = cache.lastImage
  BY DEF IndInv
<1> QED
  BY <1>1 DEF IndInv, CacheOK, CacheIsSound

\* The callbacks keep the records of the search and of the answer.
LEMMA Callback ==
    ASSUME IndInv, NEW methods, callback(methods)
    PROVE  /\ search' = [parse |-> search'.parse, best |-> search'.best, called |-> search'.called]
           /\ answer' = [ok |-> answer'.ok, symbol |-> answer'.symbol]
           /\ search'.parse \in {"search", "call"} /\ search'.called \in BOOLEAN
           /\ answer'.ok \in BOOLEAN
<1> DEFINE first == FirstWith(methods, search.best)
           best == Max({search.best} \cup {x \in {m.imp : m \in ToSet(methods)} : x <= frame.pc})
<1>1. search.parse \in {"search", "call"} /\ search.called \in BOOLEAN /\ answer.ok \in BOOLEAN
  BY DEF IndInv, CacheOK, TypeOK
<1>2. CASE search.parse = "search"
  <2>1. search' = [search EXCEPT !.best = best] /\ UNCHANGED answer
    BY <1>2 DEF callback
  <2> HIDE DEF best
  <2> QED
    BY <1>1, <2>1 DEF IndInv
<1>3. CASE search.parse # "search"
  <2>1. /\ search' = [search EXCEPT !.called = @ \/ first # 0]
        /\ answer' = answer \/ answer' = objc_symbol_callback(methods[first])
    BY <1>3 DEF callback
  <2> HIDE DEF first
  <2>2. answer' = [ok |-> answer.ok, symbol |-> answer'.symbol]
    BY <2>1 DEF objc_symbol_callback, IndInv
  <2>3. search' = [parse |-> search.parse, best |-> search.best, called |-> search.called \/ first # 0]
    BY <2>1 DEF IndInv
  <2> QED
    BY <1>1, <2>2, <2>3
<1> QED
  BY <1>2, <1>3

\* A parse of a class with some lists ends with one of the errors.
LEMMA ParseWithClass ==
    ASSUME IndInv, NEW rw, NEW lists, parse_with_class(rw, lists)
    PROVE  /\ failures' \in 0 .. MaxFailures
           /\ cache' = [cache EXCEPT !.table = cache'.table]
           /\ cache'.table = << >> \/ DOMAIN cache'.table = 0 .. CacheSize - 1
           /\ err' \in {"ESUCCESS", "ENOTFOUND", "EINVALID_DATA"}
           /\ search' = [parse |-> search'.parse, best |-> search'.best, called |-> search'.called]
           /\ answer' = [ok |-> answer'.ok, symbol |-> answer'.symbol]
           /\ search'.parse \in {"search", "call"} /\ search'.called \in BOOLEAN
           /\ answer'.ok \in BOOLEAN
<1>1. parse_objc2_class(rw)
  BY DEF parse_with_class
<1>2. CASE ClassError(rw) = "ESUCCESS"
  <2>1. PICK methods : callback(methods) /\ err' \in {"ESUCCESS", "EINVALID_DATA"}
    <3>1. parse_objc2_method_lists(lists, ClassData(rw).name)
      BY <1>2 DEF parse_with_class
    <3> QED
      BY <3>1 DEF parse_objc2_method_lists
  <2> QED
    BY <1>1, <2>1, Callback, ParseClass
<1>3. CASE ClassError(rw) # "ESUCCESS"
  <2>1. err' = ClassError(rw) /\ UNCHANGED <<search, answer>>
    BY <1>3 DEF parse_with_class
  <2>2. ClassError(rw) \in {"ENOTFOUND", "EINVALID_DATA"}
    BY <1>3 DEF ClassError
  <2> QED
    BY <1>1, <2>1, <2>2, ParseClass DEF IndInv, CacheOK, TypeOK
<1> QED
  BY <1>2, <1>3

\* A step of a lookup through the classes preserves the invariant.
LEMMA ParseStep ==
    ASSUME IndInv, stage # "freed",
           NEW rw, NEW lists, parse_with_class(rw, lists),
           stage' \in {"class", "metaclass", "category", "parsed"},
           UNCHANGED <<process, strategy, live, writer>>
    PROVE  IndInv'
<1> DEFINE table == cache'.table
<1>1. cache' = [cache EXCEPT !.table = table] /\ (table = << >> \/ DOMAIN table = 0 .. CacheSize - 1)
  BY ParseWithClass
<1> HIDE DEF table
<1>2. cache' = [gotObjC2Info |-> cache.gotObjC2Info, lastImage |-> cache.lastImage,
                initialized |-> cache.initialized, mobj |-> cache.mobj, table |-> table]
  BY <1>1 DEF IndInv
<1>3. TypeOK'
  <2>1. DOMAIN table \in {{}, 0 .. CacheSize - 1}
    BY <1>1
  <2> QED
    BY <1>2, <2>1, ParseWithClass DEF IndInv, CacheOK, TypeOK, writer
<1>4. CacheIsSound'
  BY <1>2, SameSections, ParseWithClass
<1> QED
  BY <1>1, <1>2, <1>3, <1>4, ParseWithClass DEF IndInv, CacheOK, writer

----------------------------------------------------------------------------
(* The steps.                                                              *)

\* What a step that leaves the cache alone has to show.
LEMMA CacheUntouched ==
    ASSUME IndInv, UNCHANGED <<process, strategy, cache, live, failures, stack>>,
           stage # "freed",
           stage' \in {"macho", "modules", "map", "class", "category", "parsed", "answer", "packed", "written"},
           err' \in {"ESUCCESS", "ENOTFOUND", "EINVALID_DATA"},
           turn' \in [pass : {"size", "write"}, frame : 1 .. MaxFrames, message : BOOLEAN, call : 1 .. 2],
           turn'.frame <= Len(stack),
           search' = [parse |-> search'.parse, best |-> search'.best, called |-> search'.called],
           answer' = [ok |-> answer'.ok, symbol |-> answer'.symbol],
           search'.parse \in {"search", "call"}, search'.called \in BOOLEAN, answer'.ok \in BOOLEAN
    PROVE  IndInv'
<1>1. TypeOK'
  BY DEF IndInv, CacheOK, TypeOK
<1>2. CacheIsSound'
  BY DEF IndInv, CacheOK, CacheIsSound
<1> QED
  BY <1>1, <1>2 DEF IndInv, CacheOK

\* The facts about the variables that a step leaves alone.
LEMMA Unchanged ==
    ASSUME IndInv
    PROVE  /\ err \in {"ESUCCESS", "ENOTFOUND", "EINVALID_DATA"}
           /\ turn \in [pass : {"size", "write"}, frame : 1 .. MaxFrames, message : BOOLEAN, call : 1 .. 2]
           /\ turn.frame <= Len(stack)
           /\ search = [parse |-> search.parse, best |-> search.best, called |-> search.called]
           /\ answer = [ok |-> answer.ok, symbol |-> answer.symbol]
           /\ search.parse \in {"search", "call"} /\ search.called \in BOOLEAN
           /\ answer.ok \in BOOLEAN
BY DEF IndInv, CacheOK, TypeOK

LEMMA SearchSymbolTable ==
    ASSUME IndInv, searchSymbolTable
    PROVE  IndInv'
<1>1. PICK found : answer' = [ok |-> found # NoSymbol, symbol |-> found]
  BY DEF searchSymbolTable
<1>2. search' = [parse |-> "search", best |-> 0, called |-> FALSE]
  BY DEF searchSymbolTable
<1>3. stage = "macho" /\ stage' \in {"modules", "answer"} /\ UNCHANGED <<process, strategy, cache, live, failures, stack, turn, err>>
  BY DEF searchSymbolTable, writer
<1> QED
  BY <1>1, <1>2, <1>3, CacheUntouched, Unchanged

LEMMA ParseFromModuleInfo ==
    ASSUME IndInv, parse_from_module_info
    PROVE  IndInv'
<1>1. stage = "modules" /\ UNCHANGED <<process, strategy, cache, live, failures, stack, turn>>
  BY DEF parse_from_module_info, writer
<1>2. CASE stage' = "map" /\ UNCHANGED <<search, answer, err>>
  BY <1>1, <1>2, CacheUntouched, Unchanged
<1>3. ASSUME NEW methods, callback(methods), err' = "ESUCCESS", stage' = "parsed" PROVE IndInv'
  BY <1>1, <1>3, CacheUntouched, Callback, Unchanged
<1> QED
  BY <1>2, <1>3 DEF parse_from_module_info

LEMMA MapSections ==
    ASSUME IndInv, map_sections
    PROVE  IndInv'
<1> DEFINE mapped == {s \in SectionNames : Position(s) <= image.mapped}
<1>1. stage = "map" /\ UNCHANGED <<process, strategy, failures, writer, search, answer>>
  BY DEF map_sections
<1>2. CASE cache.lastImage = frame.image
  <2>1. err' = "ESUCCESS" /\ stage' = "class" /\ UNCHANGED <<cache, live>>
    BY <1>2 DEF map_sections
  <2> QED
    BY <1>1, <2>1, CacheUntouched, Unchanged DEF writer
<1>3. CASE cache.lastImage # frame.image
  <2>1. /\ cache' = Mapped(frame.image, mapped)
        /\ live' = [s \in SectionNames |-> Freed[s] + (IF s \in mapped THEN 1 ELSE 0)]
        /\ err' \in {"ESUCCESS", "ENOTFOUND"}
        /\ stage' \in {"class", "parsed"}
    BY <1>3 DEF map_sections
  <2>2. mapped \subseteq SectionNames
    OBVIOUS
  <2> HIDE DEF mapped
  <2>3. frame.image \in Images
    BY FrameHasImage
  <2>4. cache' = [gotObjC2Info |-> cache.gotObjC2Info,
                  lastImage |-> IF mapped = SectionNames THEN frame.image ELSE None,
                  initialized |-> [s \in SectionNames |-> s \in mapped],
                  mobj |-> [s \in SectionNames |-> IF s \in mapped THEN frame.image ELSE cache.mobj[s]],
                  table |-> cache.table]
    <3>1. cache = [gotObjC2Info |-> cache.gotObjC2Info, lastImage |-> cache.lastImage,
                   initialized |-> cache.initialized, mobj |-> cache.mobj, table |-> cache.table]
      BY DEF IndInv
    <3> QED
      BY <2>1, <3>1 DEF Mapped
  <2>5. TypeOK'
    <3>1. cache'.mobj \in [SectionNames -> Images \cup {None}]
      BY <2>3, <2>4 DEF IndInv, CacheOK, TypeOK
    <3>2. cache'.initialized \in [SectionNames -> BOOLEAN]
      BY <2>4
    <3>3. cache'.lastImage \in Images \cup {None} /\ cache'.gotObjC2Info \in BOOLEAN
      BY <2>3, <2>4 DEF IndInv, CacheOK, TypeOK
    <3>4. DOMAIN cache'.table \in {{}, 0 .. CacheSize - 1}
      BY <2>4 DEF IndInv, CacheOK, TypeOK
    <3> QED
      BY <1>1, <2>1, <3>1, <3>2, <3>3, <3>4 DEF IndInv, CacheOK, TypeOK, writer
  <2>6. CacheIsSound'
    <3>1. \A s \in SectionNames : Freed[s] = 0
      BY DEF IndInv, CacheOK, CacheIsSound, Freed
    <3>2. ASSUME NEW s \in SectionNames PROVE live'[s] = IF cache'.initialized[s] THEN 1 ELSE 0
      <4>1. live'[s] = IF s \in mapped THEN 1 ELSE 0
        BY <2>1, <3>1
      <4>2. cache'.initialized[s] = (s \in mapped)
        BY <2>4
      <4> QED
        BY <4>1, <4>2
    <3>3. ASSUME cache'.lastImage # None, NEW s \in SectionNames
          PROVE  cache'.initialized[s] /\ cache'.mobj[s] = cache'.lastImage
      <4>1. mapped = SectionNames /\ cache'.lastImage = frame.image
        BY <2>4, <3>3
      <4> QED
        BY <2>4, <4>1
    <3> QED
      BY <3>2, <3>3 DEF CacheIsSound
  <2> QED
    BY <1>1, <2>1, <2>4, <2>5, <2>6 DEF IndInv, CacheOK, writer
<1> QED
  BY <1>2, <1>3

\* The three steps that parse an item.
LEMMA ParseItem ==
    ASSUME IndInv, parseClass \/ parseMetaclass \/ parseCategory
    PROVE  IndInv'
<1>1. PICK rw, lists : parse_with_class(rw, lists)
  BY DEF parseClass, parseMetaclass, parseCategory, parse_objc2_class_methods
<1>2. stage' \in {"class", "metaclass", "category", "parsed"} /\ stage # "freed"
  BY DEF parseClass, parseMetaclass, parseCategory
<1>3. UNCHANGED <<process, strategy, live, writer>>
  BY DEF parseClass, parseMetaclass, parseCategory
<1> QED
  BY <1>1, <1>2, <1>3, ParseStep

LEMMA EndOfClasses ==
    ASSUME IndInv, endOfClasses
    PROVE  IndInv'
BY CacheUntouched, Unchanged DEF endOfClasses, writer

LEMMA EndOfCategories ==
    ASSUME IndInv, endOfCategories
    PROVE  IndInv'
<1>1. /\ stage = "category" /\ stage' = "parsed"
      /\ UNCHANGED <<process, strategy, live, failures, writer, err, search, answer>>
      /\ cache' = [cache EXCEPT !.gotObjC2Info = @ \/ err = "ESUCCESS"]
  BY DEF endOfCategories
<1>2. cache' = [gotObjC2Info |-> cache.gotObjC2Info \/ err = "ESUCCESS", lastImage |-> cache.lastImage,
                initialized |-> cache.initialized, mobj |-> cache.mobj, table |-> cache.table]
  BY <1>1 DEF IndInv
<1>3. TypeOK'
  BY <1>1, <1>2 DEF IndInv, CacheOK, TypeOK, writer
<1>4. CacheIsSound'
  BY <1>1, <1>2 DEF IndInv, CacheOK, CacheIsSound
<1> QED
  BY <1>1, <1>2, <1>3, <1>4 DEF IndInv, CacheOK, writer

LEMMA FindMethod ==
    ASSUME IndInv, find_method
    PROVE  IndInv'
<1>1. stage = "parsed" /\ UNCHANGED <<process, strategy, cache, live, failures, stack, turn, err>>
  BY DEF find_method, writer
<1>2. CASE search' = [search EXCEPT !.parse = "call"] /\ stage' = "modules" /\ UNCHANGED answer
  <2>1. search' = [parse |-> "call", best |-> search.best, called |-> search.called]
    BY <1>2 DEF IndInv
  <2> QED
    BY <1>1, <1>2, <2>1, CacheUntouched, Unchanged
<1>3. CASE /\ stage' = "answer" /\ UNCHANGED search
           /\ answer' = [answer EXCEPT !.ok = @ \/ (search.parse = "call" /\ err = "ESUCCESS")]
  <2>1. answer' = [ok |-> answer.ok \/ (search.parse = "call" /\ err = "ESUCCESS"), symbol |-> answer.symbol]
    BY <1>3 DEF IndInv
  <2>2. answer'.ok \in BOOLEAN /\ answer' = [ok |-> answer'.ok, symbol |-> answer'.symbol]
    BY <2>1
  <2> QED
    BY <1>1, <1>3, <2>2, CacheUntouched, Unchanged
<1> QED
  BY <1>2, <1>3 DEF find_method

LEMMA WriteThreadFrame ==
    ASSUME IndInv, write_thread_frame
    PROVE  IndInv'
<1>1. stage = "answer" /\ UNCHANGED <<process, strategy, cache, live, failures, stack, err, search, answer>>
  BY DEF write_thread_frame
<1>2. \/ turn' = [turn EXCEPT !.call = 2] /\ stage' = "macho"
      \/ UNCHANGED turn /\ stage' = "packed"
  <2>1. CASE IsFound /\ turn.call = 1
    BY <2>1 DEF write_thread_frame
  <2>2. CASE ~ (IsFound /\ turn.call = 1)
    BY <2>2 DEF write_thread_frame
  <2> QED
    BY <2>1, <2>2
<1>3. /\ turn' \in [pass : {"size", "write"}, frame : 1 .. MaxFrames, message : BOOLEAN, call : 1 .. 2]
      /\ turn'.frame <= Len(stack)
  BY <1>2, Unchanged
<1> QED
  BY <1>1, <1>2, <1>3, CacheUntouched, Unchanged

LEMMA WriteThread ==
    ASSUME IndInv, write_thread
    PROVE  IndInv'
<1> DEFINE last == turn.message /\ turn.frame = Len(stack)
<1>1. stage = "packed" /\ UNCHANGED <<process, strategy, cache, live, failures, stack, err, search, answer>>
  BY DEF write_thread
<1>2. /\ turn' = IF ~ turn.message THEN [turn EXCEPT !.message = TRUE, !.call = 1]
                 ELSE IF ~ last THEN [turn EXCEPT !.frame = @ + 1, !.message = FALSE, !.call = 1]
                 ELSE [FirstTurn EXCEPT !.pass = "write"]
      /\ stage' \in {"written", "macho"}
  BY DEF write_thread
<1>3. MaxFrames \in Nat /\ Len(stack) \in 1 .. MaxFrames
  BY SymbolicationAssumption DEF IndInv
<1>4. /\ turn' \in [pass : {"size", "write"}, frame : 1 .. MaxFrames, message : BOOLEAN, call : 1 .. 2]
      /\ turn'.frame <= Len(stack)
  <2>1. CASE ~ turn.message
    <3>1. turn' = [turn EXCEPT !.message = TRUE, !.call = 1]
      BY <1>2, <2>1
    <3>2. turn' = [pass |-> turn.pass, frame |-> turn.frame, message |-> TRUE, call |-> 1]
      BY <3>1, Unchanged
    <3>3. turn.pass \in {"size", "write"} /\ turn.frame \in 1 .. MaxFrames /\ turn.frame <= Len(stack)
      BY Unchanged
    <3> QED
      BY <3>2, <3>3
  <2>2. CASE turn.message /\ ~ last
    <3>1. turn' = [turn EXCEPT !.frame = @ + 1, !.message = FALSE, !.call = 1]
      BY <1>2, <2>2
    <3>2. turn.frame + 1 \in 1 .. MaxFrames /\ turn.frame + 1 <= Len(stack)
      <4>1. turn.frame \in 1 .. MaxFrames /\ turn.frame <= Len(stack)
        BY Unchanged
      <4> QED
        BY <1>3, <2>2, <4>1
    <3>3. turn' = [pass |-> turn.pass, frame |-> turn.frame + 1, message |-> FALSE, call |-> 1]
      BY <3>1, Unchanged
    <3>4. turn.pass \in {"size", "write"}
      BY Unchanged
    <3> QED
      BY <3>2, <3>3, <3>4
  <2>3. CASE last
    <3>1. turn' = [pass |-> "write", frame |-> 1, message |-> FALSE, call |-> 1]
      BY <1>2, <2>3 DEF FirstTurn
    <3> QED
      BY <1>3, <3>1
  <2> QED
    BY <2>1, <2>2, <2>3
<1> QED
  BY <1>1, <1>2, <1>4, CacheUntouched, Unchanged

LEMMA CacheFree ==
    ASSUME IndInv, cache_free
    PROVE  IndInv'
<1>1. /\ live' = Freed /\ stage' = "freed" /\ cache' = [cache EXCEPT !.initialized = NotMapped]
      /\ UNCHANGED <<process, strategy, failures, writer, err, search, answer>>
  BY DEF cache_free
<1>2. cache' = [gotObjC2Info |-> cache.gotObjC2Info, lastImage |-> cache.lastImage,
                initialized |-> NotMapped, mobj |-> cache.mobj, table |-> cache.table]
  BY <1>1 DEF IndInv
<1>3. TypeOK'
  BY <1>1, <1>2 DEF IndInv, CacheOK, TypeOK, NotMapped, writer
<1>4. CacheIsSound'
  BY <1>1, <1>2 DEF IndInv, CacheOK, CacheIsSound, Freed, NotMapped
<1> QED
  BY <1>1, <1>2, <1>3, <1>4 DEF IndInv, CacheOK, writer

\* Every step preserves the invariant.
LEMMA NextInv == IndInv /\ [Next]_vars => IndInv'
<1> SUFFICES ASSUME IndInv, [Next]_vars PROVE IndInv'
  OBVIOUS
<1>1. CASE Next
  BY <1>1, SearchSymbolTable, ParseFromModuleInfo, MapSections, ParseItem, EndOfClasses,
     EndOfCategories, FindMethod, WriteThreadFrame, WriteThread, CacheFree DEF Next
<1>2. CASE UNCHANGED vars
  BY <1>2 DEF vars, writer, lookup, IndInv, CacheOK, TypeOK, CacheIsSound
<1> QED
  BY <1>1, <1>2

----------------------------------------------------------------------------
(* Theorems.                                                               *)

\* The invariant holds in every state of a symbolication.
THEOREM InvariantHolds == Spec => []IndInv
BY InitInv, NextInv, PTL DEF Spec

\* Whatever images the frames belong to, which of their sections exist and what fails in
\* between, no section is mapped twice, left mapped or taken for another image's.
THEOREM CacheStaysSound == Spec => []CacheOK
<1>1. IndInv => CacheOK
  BY DEF IndInv
<1> QED
  BY <1>1, InvariantHolds, PTL

----------------------------------------------------------------------------
(* The cache holds what is in the process.                                 *)

ItemStages == {"class", "metaclass", "category"}
LookupStages == ItemStages \cup {"modules", "map", "parsed", "answer"}

\* Of the classes of the table.
TableIsTrue(table) ==
    \A k \in DOMAIN table :
        table[k].ro # 0 => Realized(table[k].key) /\ table[k].ro = process.rw[table[k].key].ro

\* The lists that a lookup goes through are those of its image.
LEMMA ListsOfImage ==
    ASSUME IndInv, CacheIsTrue, stage \in ItemStages
    PROVE  /\ frame.image \in Images /\ HasSections(image)
           /\ \A s \in SectionNames : cache.mobj[s] = frame.image
           /\ classes = image.classlist /\ categories = image.catlist
<1>1. frame.image \in Images /\ frame.image # None
  BY FrameHasImage, ListAssumption
<1>2. cache.lastImage = frame.image /\ HasSections(image)
  BY <1>1 DEF CacheIsTrue, ItemStages, image
<1>3. \A s \in SectionNames : cache.mobj[s] = frame.image
  BY <1>1, <1>2 DEF IndInv, CacheOK, CacheIsSound, ItemStages
<1>4. cache.mobj["classlist"] = frame.image /\ cache.mobj["catlist"] = frame.image
  BY <1>3, NamesOfSections DEF Names
<1> QED
  BY <1>1, <1>2, <1>3, <1>4 DEF classes, categories, image

\* Their items are addresses.
LEMMA ItemsAreAddresses ==
    ASSUME IndInv, CacheIsTrue, process \in Processes, stage \in ItemStages
    PROVE  /\ at <= Len(classes) => classes[at].class \in Nat /\ classes[at].metaclass \in Nat
           /\ at <= Len(categories) => categories[at].class \in Nat
           /\ stage = "metaclass" => at <= Len(classes)
<1>1. at \in Nat \ {0} /\ frame.image \in Images
  BY FrameHasImage DEF CacheIsTrue, ItemStages
<1>2. classes = process.images[frame.image].classlist /\ categories = process.images[frame.image].catlist
  BY ListsOfImage DEF image
<1>3. /\ classes \in Seq([class : Nat, metaclass : Nat])
      /\ Len(categories) \in Nat /\ DOMAIN categories = 1 .. Len(categories)
      /\ \A k \in DOMAIN categories : categories[k].class \in Nat
  BY <1>1, <1>2, ListAssumption
<1>4. ASSUME at <= Len(classes) PROVE classes[at].class \in Nat /\ classes[at].metaclass \in Nat
  <2> DEFINE Items == [class : Nat, metaclass : Nat]
  <2>1. PICK list : list = classes
    OBVIOUS
  <2>2. list \in Seq(Items) /\ at \in 1 .. Len(list)
    BY <1>1, <1>3, <1>4, <2>1
  <2> HIDE DEF Items
  <2>3. list[at] \in Items
    BY <2>2
  <2> QED
    BY <2>1, <2>3 DEF Items
<1>5. ASSUME at <= Len(categories) PROVE categories[at].class \in Nat
  BY <1>1, <1>3, <1>5
<1> QED
  BY <1>4, <1>5, ListsOfImage DEF CacheIsTrue

\* What a lookup of a class finds in the cache is what it would find in the process.
LEMMA LookupIsTrue ==
    ASSUME IndInv, CacheIsTrue, NEW rw \in Nat, cache_lookup(rw) # 0
    PROVE  Realized(rw) /\ cache_lookup(rw) = process.rw[rw].ro
<1>1. cache.table # << >>
  BY DEF cache_lookup
<1>2. DOMAIN cache.table = 0 .. CacheSize - 1
  BY <1>1 DEF IndInv
<1>3. PICK k : k = cache_index(rw)
  OBVIOUS
<1>4. k \in 0 .. CacheSize - 1
  BY <1>3, SymbolicationAssumption DEF cache_index
<1>5. cache.table[k].key = rw /\ cache_lookup(rw) = cache.table[k].ro
  BY <1>1, <1>3 DEF cache_lookup
<1> QED
  BY <1>2, <1>4, <1>5 DEF CacheIsTrue

\* What parsing a class comes to, whatever the cache holds.
ErrorOf(p, rw) ==
    IF rw \notin DOMAIN p.rw THEN "EINVALID_DATA"
    ELSE IF ~ p.rw[rw].realized THEN "ENOTFOUND"
    ELSE IF p.rw[rw].ro \notin DOMAIN p.ro THEN "EINVALID_DATA"
    ELSE "ESUCCESS"
DataOf(p, rw) == p.ro[p.rw[rw].ro]

LEMMA ClassIsTrue ==
    ASSUME IndInv, CacheIsTrue, NEW rw \in Nat
    PROVE  /\ ClassError(rw) = ErrorOf(process, rw)
           /\ ClassError(rw) = "ESUCCESS" => ClassData(rw) = DataOf(process, rw) /\ Realized(rw)
<1>1. CASE cache_lookup(rw) = 0
  BY <1>1 DEF ClassError, ErrorOf, ClassData, DataOf, Realized
<1>2. CASE cache_lookup(rw) # 0
  BY <1>2, LookupIsTrue DEF ClassError, ErrorOf, ClassData, DataOf, Realized
<1> QED
  BY <1>1, <1>2

\* What is entered is true.
LEMMA EnteredIsTrue ==
    ASSUME IndInv, CacheIsTrue, NEW rw \in Nat, parse_objc2_class(rw), process' = process
    PROVE  /\ TableIsTrue(cache'.table)
           /\ cache'.lastImage = cache.lastImage /\ cache'.gotObjC2Info = cache.gotObjC2Info
<1>0. /\ cache'.lastImage = cache.lastImage /\ cache'.gotObjC2Info = cache.gotObjC2Info
  <2>1. cache' = [cache EXCEPT !.table = cache'.table]
    BY ParseClass
  <2> QED
    BY <2>1 DEF IndInv
<1>1. CASE UNCHANGED cache
  BY <1>0, <1>1 DEF CacheIsTrue, TableIsTrue
<1>2. CASE ~ UNCHANGED cache
  <2>1. /\ ClassError(rw) = "ESUCCESS" /\ cache_set(rw, process.rw[rw].ro)
    BY <1>2 DEF parse_objc2_class
  <2>2. Realized(rw)
    BY <2>1, ClassIsTrue
  <2> DEFINE empty == [k \in 0 .. CacheSize - 1 |-> [key |-> 0, ro |-> 0]]
             table == IF cache.table = << >> THEN empty ELSE cache.table
             i == cache_index(rw)
             entered == IF table[i].key # 0 THEN table
                        ELSE [table EXCEPT ![i] = [key |-> rw, ro |-> process.rw[rw].ro]]
  <2>3. cache' = [cache EXCEPT !.table = entered]
    BY <1>2, <2>1 DEF cache_set
  <2>4. TableIsTrue(table)
    BY DEF CacheIsTrue, TableIsTrue
  <2>5. TableIsTrue(entered)
    <3> HIDE DEF table, i
    <3>1. CASE table[i].key # 0
      BY <2>4, <3>1
    <3>2. CASE table[i].key = 0
      BY <2>2, <2>4, <3>2 DEF TableIsTrue
    <3> QED
      BY <3>1, <3>2
  <2> HIDE DEF entered
  <2>6. cache'.table = entered
    BY <2>3 DEF IndInv
  <2> QED
    BY <1>0, <2>5, <2>6
<1> QED
  BY <1>1, <1>2

----------------------------------------------------------------------------
(* A lookup without the cache: what the next step of it comes to follows   *)
(* from the process, the frame and what the lookup has found.              *)

\* Where a lookup is; of what it has noted, what it still looks at.
At(where, item, error, found) ==
    [stage |-> where, at |-> item, err |-> error, search |-> found.search, answer |-> found.answer]

Here == At(stage, IF stage \in ItemStages THEN at ELSE 0,
           IF stage \in {"class", "category", "parsed"} THEN err ELSE "ESUCCESS",
           [search |-> search, answer |-> answer])

\* The callbacks of a parse, for some methods.
Called(methods, pc, found) ==
    LET upTo == {x \in {m.imp : m \in ToSet(methods)} : x <= pc}
        first == FirstWith(methods, found.search.best)
        m == methods[first]
    IN IF found.search.parse = "search"
       THEN [search |-> [found.search EXCEPT !.best = Max({found.search.best} \cup upTo)],
             answer |-> found.answer]
       ELSE [search |-> [found.search EXCEPT !.called = found.search.called \/ first # 0],
             answer |-> IF \/ first = 0 \/ found.search.called
                           \/ found.answer.symbol # NoSymbol /\ m.imp < found.answer.symbol.address
                        THEN found.answer
                        ELSE [found.answer EXCEPT !.symbol = [address |-> m.imp, name |-> m.name]]]

\* A parse of some lists of a class.
Parsed(p, f, rw, lists, found) ==
    LET unmapped == {k \in DOMAIN lists : ~ (lists[k].imps = << >> \/ f.image = lists[k].home)}
        parsed == IF unmapped = {} THEN lists ELSE SubSeq(lists, 1, Min(unmapped) - 1)
        methods == [k \in DOMAIN parsed |-> Methods(parsed[k].imps, DataOf(p, rw).name, parsed[k].meta)]
        called == Called(FlattenSeq(methods), f.pc, found)
    IN IF ErrorOf(p, rw) = "ESUCCESS"
       THEN [err |-> IF unmapped = {} THEN "ESUCCESS" ELSE "EINVALID_DATA",
             search |-> called.search, answer |-> called.answer]
       ELSE [err |-> ErrorOf(p, rw), search |-> found.search, answer |-> found.answer]

ParsedMethods(p, f, rw, meta, found) ==
    LET base == DataOf(p, rw).list
    IN Parsed(p, f, rw, <<[home |-> base.home, imps |-> base.imps, meta |-> meta]>>, found)

ModuleMethods(i) ==
    FlattenSeq([k \in DOMAIN i.modules |-> Methods(i.modules[k].imps, k, FALSE) \o
                                           Methods(i.modules[k].meta, k, TRUE)])

\* d comes after c.
InModules(i, f, c, d) ==
    /\ c.stage = "modules"
    /\ \/ i.modules # << >> /\ d = At("parsed", 0, "ESUCCESS", Called(ModuleMethods(i), f.pc, c))
       \/ i.modules = << >> /\ d = At("map", 0, "ESUCCESS", c)

InMap(i, c, d) ==
    /\ c.stage = "map"
    /\ \/ HasSections(i) /\ d = At("class", 1, "ESUCCESS", c)
       \/ ~ HasSections(i) /\ d = At("parsed", 0, "ENOTFOUND", c)

InClass(p, i, f, c, d) ==
    /\ c.stage = "class"
    /\ \/ /\ c.at <= Len(i.classlist)
          /\ LET r == ParsedMethods(p, f, i.classlist[c.at].class, FALSE, c)
             IN \/ r.err = "ESUCCESS" /\ d = At("metaclass", c.at, "ESUCCESS", r)
                \/ r.err = "ENOTFOUND" /\ d = At("class", c.at + 1, "ENOTFOUND", r)
                \/ r.err \notin {"ESUCCESS", "ENOTFOUND"} /\ d = At("parsed", 0, r.err, r)
       \/ ~ (c.at <= Len(i.classlist)) /\ d = At("category", 1, c.err, c)

InMetaclass(p, i, f, c, d) ==
    /\ c.stage = "metaclass"
    /\ LET r == ParsedMethods(p, f, i.classlist[c.at].metaclass, TRUE, c)
       IN \/ r.err = "ESUCCESS" /\ d = At("class", c.at + 1, "ESUCCESS", r)
          \/ r.err # "ESUCCESS" /\ d = At("parsed", 0, r.err, r)

InCategory(p, i, f, c, d) ==
    /\ c.stage = "category"
    /\ \/ /\ c.at <= Len(i.catlist)
          /\ LET r == Parsed(p, f, i.catlist[c.at].class, i.catlist[c.at].lists, c)
             IN \/ r.err \in {"ESUCCESS", "ENOTFOUND"} /\ d = At("category", c.at + 1, r.err, r)
                \/ r.err \notin {"ESUCCESS", "ENOTFOUND"} /\ d = At("parsed", 0, r.err, r)
       \/ ~ (c.at <= Len(i.catlist)) /\ d = At("parsed", 0, c.err, c)

AfterParse(c, d) ==
    /\ c.stage = "parsed"
    /\ LET again == c.search.parse = "search" /\ c.err = "ESUCCESS" /\ c.search.best # 0
           ok == c.answer.ok \/ (c.search.parse = "call" /\ c.err = "ESUCCESS")
       IN \/ /\ again
             /\ d = At("modules", 0, "ESUCCESS",
                       [search |-> [c.search EXCEPT !.parse = "call"], answer |-> c.answer])
          \/ /\ ~ again
             /\ d = At("answer", 0, "ESUCCESS",
                       [search |-> c.search, answer |-> [c.answer EXCEPT !.ok = ok]])

Follows(p, f, c, d) ==
    LET i == p.images[f.image]
    IN \/ InModules(i, f, c, d) \/ InMap(i, c, d) \/ InClass(p, i, f, c, d)
       \/ InMetaclass(p, i, f, c, d) \/ InCategory(p, i, f, c, d) \/ AfterParse(c, d)

\* Nothing else does, and nothing comes after the answer.
LEMMA OneFollows ==
    ASSUME NEW p, NEW f, NEW c, NEW d, NEW e, Follows(p, f, c, d)
    PROVE  c.stage # "answer" /\ (Follows(p, f, c, e) => d = e)
<1> USE DEF Follows
<1>1. CASE c.stage = "modules"
  BY <1>1 DEF InModules, InMap, InClass, InMetaclass, InCategory, AfterParse
<1>2. CASE c.stage = "map"
  BY <1>2 DEF InModules, InMap, InClass, InMetaclass, InCategory, AfterParse
<1>3. CASE c.stage = "class"
  BY <1>3 DEF InModules, InMap, InClass, InMetaclass, InCategory, AfterParse
<1>4. CASE c.stage = "metaclass"
  BY <1>4 DEF InModules, InMap, InClass, InMetaclass, InCategory, AfterParse
<1>5. CASE c.stage = "category"
  BY <1>5 DEF InModules, InMap, InClass, InMetaclass, InCategory, AfterParse
<1>6. CASE c.stage = "parsed"
  BY <1>6 DEF InModules, InMap, InClass, InMetaclass, InCategory, AfterParse
<1>7. c.stage \in {"modules", "map", "class", "metaclass", "category", "parsed"}
  BY DEF InModules, InMap, InClass, InMetaclass, InCategory, AfterParse
<1> QED
  BY <1>1, <1>2, <1>3, <1>4, <1>5, <1>6, <1>7

\* Where a lookup begins, and what it goes through.
Begun(p, st, f) ==
    LET symbol == IF "symtab" \in st THEN find_symbol_by_pc(p.images[f.image], f.pc) ELSE NoSymbol
    IN At(IF "objc" \in st THEN "modules" ELSE "answer", 0, "ESUCCESS",
          [search |-> [parse |-> "search", best |-> 0, called |-> FALSE],
           answer |-> [ok |-> symbol # NoSymbol, symbol |-> symbol]])

Lookup(p, st, f, q, n) ==
    n \in Nat /\ q[0] = Begun(p, st, f) /\ \A k \in 0 .. n - 1 : Follows(p, f, q[k], q[k + 1])

Reached(p, st, f, c) == \E n, q : Lookup(p, st, f, q, n) /\ q[n] = c

Answered(p, st, f, a) == \E c : Reached(p, st, f, c) /\ c.stage = "answer" /\ a = c.answer

\* A set of numbers that is not empty has a least one.
LEMMA LeastNumber ==
    ASSUME NEW T \in SUBSET Nat, T # {}
    PROVE  \E m \in T : \A k \in T : m <= k
<1> DEFINE R == OpToRel(<, Nat)
<1>1. IsWellFoundedOn(R, Nat)
  BY NatLessThanWellFounded, Zenon
<1>2. \A x, y \in Nat : <<x, y>> \in R <=> x < y
  BY DEF OpToRel
<1> HIDE DEF R
<1>3. PICK x \in T : \A y \in T : ~(<<y, x>> \in R)
  BY <1>1, WFMin
<1>4. \A y \in T : ~(y < x)
  BY <1>2, <1>3
<1> QED
  BY <1>4

\* Two lookups for a frame go through the same.
LEMMA SameWay ==
    ASSUME NEW p, NEW st, NEW f, NEW q, NEW r, NEW m, NEW n, m <= n,
           Lookup(p, st, f, q, m), Lookup(p, st, f, r, n)
    PROVE  q[m] = r[m]
<1> DEFINE T == {k \in 0 .. m : q[k] # r[k]}
<1>0. m \in Nat /\ n \in Nat
  BY DEF Lookup
<1>1. SUFFICES ASSUME T # {} PROVE FALSE
  BY <1>0
<1>2. PICK k \in T : \A j \in T : k <= j
  <2>1. T \in SUBSET Nat
    BY <1>0
  <2> HIDE DEF T
  <2> QED
    BY <1>1, <2>1, LeastNumber
<1>3. k # 0
  BY <1>2 DEF Lookup
<1>4. PICK j : j = k - 1
  OBVIOUS
<1>5. j \in 0 .. m - 1 /\ j \in 0 .. n - 1 /\ j + 1 = k /\ j \notin T /\ j \in 0 .. m
  BY <1>0, <1>2, <1>3, <1>4
<1>6. q[j] = r[j]
  BY <1>5
<1>7. Follows(p, f, q[j], q[k]) /\ Follows(p, f, r[j], r[k])
  BY <1>5 DEF Lookup
<1>8. q[k] = r[k]
  BY <1>6, <1>7, OneFollows
<1> QED
  BY <1>2, <1>8

\* They come to the same answer.
LEMMA OneAnswer ==
    ASSUME NEW p, NEW st, NEW f, NEW a, NEW b, Answered(p, st, f, a), Answered(p, st, f, b)
    PROVE  a = b
<1>1. PICK q, m : Lookup(p, st, f, q, m) /\ q[m].stage = "answer" /\ a = q[m].answer
  BY DEF Answered, Reached
<1>2. PICK r, n : Lookup(p, st, f, r, n) /\ r[n].stage = "answer" /\ b = r[n].answer
  BY DEF Answered, Reached
<1>0. m \in Nat /\ n \in Nat
  BY <1>1, <1>2 DEF Lookup
<1>3. ASSUME m < n PROVE FALSE
  <2>1. q[m] = r[m]
    BY <1>0, <1>1, <1>2, <1>3, SameWay
  <2>2. Follows(p, f, r[m], r[m + 1])
    BY <1>0, <1>2, <1>3 DEF Lookup
  <2> QED
    BY <1>1, <2>1, <2>2, OneFollows
<1>4. ASSUME n < m PROVE FALSE
  <2>1. r[n] = q[n]
    BY <1>0, <1>1, <1>2, <1>4, SameWay
  <2>2. Follows(p, f, q[n], q[n + 1])
    BY <1>0, <1>1, <1>4 DEF Lookup
  <2> QED
    BY <1>2, <2>1, <2>2, OneFollows
<1>5. m = n
  BY <1>0, <1>3, <1>4
<1>6. q[m] = r[m]
  BY <1>0, <1>1, <1>2, <1>5, SameWay
<1> QED
  BY <1>1, <1>2, <1>5, <1>6

\* A lookup begins, and goes on.
LEMMA ReachedFirst ==
    ASSUME NEW p, NEW st, NEW f
    PROVE  Reached(p, st, f, Begun(p, st, f))
<1> DEFINE q == [k \in {0} |-> Begun(p, st, f)]
<1>1. Lookup(p, st, f, q, 0) /\ q[0] = Begun(p, st, f)
  BY DEF Lookup
<1> HIDE DEF q
<1> QED
  BY <1>1 DEF Reached

LEMMA ReachedNext ==
    ASSUME NEW p, NEW st, NEW f, NEW c, NEW d, Reached(p, st, f, c), Follows(p, f, c, d)
    PROVE  Reached(p, st, f, d)
<1>1. PICK n, q : Lookup(p, st, f, q, n) /\ q[n] = c
  BY DEF Reached
<1>0. n \in Nat
  BY <1>1 DEF Lookup
<1> DEFINE r == [k \in 0 .. n + 1 |-> IF k = n + 1 THEN d ELSE q[k]]
<1>2. r[n + 1] = d /\ \A k \in 0 .. n : r[k] = q[k]
  BY <1>0
<1> HIDE DEF r
<1>3. ASSUME NEW k \in 0 .. n + 1 - 1 PROVE Follows(p, f, r[k], r[k + 1])
  <2>1. CASE k = n
    BY <1>0, <1>1, <1>2, <2>1
  <2>2. CASE k # n
    <3>1. k \in 0 .. n - 1 /\ k \in 0 .. n /\ k + 1 \in 0 .. n
      BY <1>0, <2>2
    <3> QED
      BY <1>1, <1>2, <3>1 DEF Lookup
  <2> QED
    BY <2>1, <2>2
<1>4. Lookup(p, st, f, r, n + 1)
  BY <1>0, <1>1, <1>2, <1>3 DEF Lookup
<1> QED
  BY <1>2, <1>4 DEF Reached

\* What a lookup's steps have to show of the cache.
LEMMA TrueCache ==
    ASSUME TableIsTrue(cache'.table), process' = process, frame' = frame,
           cache'.lastImage # None => HasSections(process.images[cache'.lastImage]),
           cache'.gotObjC2Info => \E i \in Images : HasSections(process.images[i]),
           stage' \in ItemStages => cache'.lastImage = frame.image /\ at' \in Nat \ {0},
           stage' = "metaclass" => at' <= Len(image.classlist)
    PROVE  CacheIsTrue'
<1>1. image' = image
  BY DEF image
<1> QED
  BY <1>1 DEF CacheIsTrue, TableIsTrue, ItemStages, Realized

LEMMA SameCacheStaysTrue ==
    ASSUME CacheIsTrue, UNCHANGED <<process, cache>>, stage' \notin ItemStages
    PROVE  CacheIsTrue'
BY DEF CacheIsTrue, ItemStages, Realized

LEMMA MapSectionsTrue ==
    ASSUME IndInv, CacheIsTrue, map_sections
    PROVE  CacheIsTrue'
<1> DEFINE mapped == {s \in SectionNames : Position(s) <= image.mapped}
<1>1. frame.image \in Images /\ frame.image # None
  BY FrameHasImage, ListAssumption
<1>2. process' = process /\ frame' = frame /\ at' = 1 /\ stage' \in {"class", "parsed"}
  BY DEF map_sections, writer, frame
<1>3. CASE cache.lastImage = frame.image
  BY <1>1, <1>2, <1>3, TrueCache DEF map_sections, CacheIsTrue, TableIsTrue, ItemStages
<1>4. CASE cache.lastImage # frame.image
  <2>1. /\ cache' = Mapped(frame.image, mapped)
        /\ stage' = "class" => mapped = SectionNames
    BY <1>4 DEF map_sections
  <2>2. mapped = SectionNames => HasSections(image)
    BY DEF HasSections
  <2> HIDE DEF mapped
  <2>3. /\ cache'.lastImage = IF mapped = SectionNames THEN frame.image ELSE None
        /\ cache'.gotObjC2Info = cache.gotObjC2Info /\ cache'.table = cache.table
    BY <2>1 DEF Mapped, IndInv
  <2> QED
    BY <1>1, <1>2, <2>1, <2>2, <2>3, TrueCache DEF CacheIsTrue, TableIsTrue, ItemStages, image
<1> QED
  BY <1>3, <1>4

\* A step that parses an item.
LEMMA ItemTrue ==
    ASSUME IndInv, CacheIsTrue, NEW rw \in Nat, parse_objc2_class(rw),
           stage \in ItemStages, process' = process, frame' = frame,
           at' \in Nat \ {0}, stage' = "metaclass" => at' <= Len(image.classlist)
    PROVE  CacheIsTrue'
<1>1. /\ TableIsTrue(cache'.table)
      /\ cache'.lastImage = cache.lastImage /\ cache'.gotObjC2Info = cache.gotObjC2Info
  BY EnteredIsTrue
<1> QED
  BY <1>1, TrueCache DEF CacheIsTrue, ItemStages

LEMMA ParseItemTrue ==
    ASSUME IndInv, CacheIsTrue, process \in Processes, parseClass \/ parseMetaclass \/ parseCategory
    PROVE  CacheIsTrue'
<1>1. stage \in ItemStages /\ process' = process /\ frame' = frame /\ at \in Nat \ {0}
  BY DEF parseClass, parseMetaclass, parseCategory, writer, frame, ItemStages, CacheIsTrue
<1>2. classes = image.classlist
  BY <1>1, ListsOfImage
<1>3. CASE parseClass
  <2>1. at <= Len(classes) /\ parse_objc2_class(classes[at].class)
    BY <1>3 DEF parseClass, parse_objc2_class_methods, parse_with_class
  <2>2. at' \in {at, at + 1} /\ (stage' = "metaclass" => at' = at)
    BY <1>3 DEF parseClass
  <2>3. classes[at].class \in Nat
    BY <1>1, <2>1, ItemsAreAddresses
  <2> QED
    BY <1>1, <1>2, <2>1, <2>2, <2>3, ItemTrue
<1>4. CASE parseMetaclass
  <2>1. at <= Len(classes) /\ parse_objc2_class(classes[at].metaclass)
    BY <1>1, <1>4, ItemsAreAddresses DEF parseMetaclass, parse_objc2_class_methods, parse_with_class
  <2>2. at' = at + 1 /\ stage' # "metaclass"
    BY <1>4 DEF parseMetaclass
  <2>3. classes[at].metaclass \in Nat
    BY <1>1, <2>1, ItemsAreAddresses
  <2> QED
    BY <1>1, <1>2, <2>1, <2>2, <2>3, ItemTrue
<1>5. CASE parseCategory
  <2>1. at <= Len(categories) /\ parse_objc2_class(categories[at].class)
    BY <1>5 DEF parseCategory, parse_with_class
  <2>2. at' = at + 1 /\ stage' # "metaclass"
    BY <1>5 DEF parseCategory
  <2>3. categories[at].class \in Nat
    BY <1>1, <2>1, ItemsAreAddresses
  <2> QED
    BY <1>1, <1>2, <2>1, <2>2, <2>3, ItemTrue
<1> QED
  BY <1>3, <1>4, <1>5

LEMMA EndsTrue ==
    ASSUME IndInv, CacheIsTrue, endOfClasses \/ endOfCategories
    PROVE  CacheIsTrue'
<1>1. CASE endOfClasses
  BY <1>1, TrueCache DEF endOfClasses, CacheIsTrue, TableIsTrue, ItemStages, writer, frame
<1>2. CASE endOfCategories
  <2>1. /\ stage = "category" /\ stage' = "parsed" /\ process' = process /\ frame' = frame
        /\ cache' = [cache EXCEPT !.gotObjC2Info = @ \/ err = "ESUCCESS"]
    BY <1>2 DEF endOfCategories, writer, frame
  <2>2. /\ cache'.lastImage = cache.lastImage /\ cache'.table = cache.table
    BY <2>1 DEF IndInv
  <2>3. \E i \in Images : HasSections(process.images[i])
    BY <2>1, ListsOfImage DEF ItemStages, image
  <2> QED
    BY <2>1, <2>2, <2>3, TrueCache DEF CacheIsTrue, TableIsTrue, ItemStages
<1> QED
  BY <1>1, <1>2

LEMMA CacheFreeTrue ==
    ASSUME IndInv, CacheIsTrue, cache_free
    PROVE  CacheIsTrue'
<1>1. /\ stage' = "freed" /\ process' = process
      /\ cache' = [cache EXCEPT !.initialized = NotMapped]
      /\ frame' = frame
  BY DEF cache_free, writer, frame
<1>2. /\ cache'.lastImage = cache.lastImage /\ cache'.table = cache.table
      /\ cache'.gotObjC2Info = cache.gotObjC2Info
  BY <1>1 DEF IndInv
<1> QED
  BY <1>1, <1>2, TrueCache DEF CacheIsTrue, TableIsTrue, ItemStages

LEMMA InitTrue == Init => CacheIsTrue
BY DEF Init, CacheIsTrue, EmptyCache

LEMMA NextTrue ==
    ASSUME IndInv, CacheIsTrue, process \in Processes, [Next]_vars
    PROVE  CacheIsTrue' /\ process' \in Processes
<1>1. process' = process
  BY DEF Next, vars, searchSymbolTable, parse_from_module_info, map_sections, parseClass, parseMetaclass,
         endOfClasses, parseCategory, endOfCategories, find_method, write_thread_frame, write_thread, cache_free
<1>2. CASE searchSymbolTable \/ parse_from_module_info \/ find_method
  BY <1>2, SameCacheStaysTrue DEF searchSymbolTable, parse_from_module_info, find_method, ItemStages
<1>3. CASE write_thread_frame \/ write_thread
  BY <1>3, SameCacheStaysTrue DEF write_thread_frame, write_thread, ItemStages
<1>4. CASE UNCHANGED vars
  BY <1>4 DEF vars, writer, lookup, CacheIsTrue, Realized, image, frame
<1> QED
  BY <1>1, <1>2, <1>3, <1>4, MapSectionsTrue, ParseItemTrue, EndsTrue, CacheFreeTrue DEF Next

Found == [search |-> search, answer |-> answer]

LEMMA HereIs ==
    /\ Here.stage = stage /\ Here.search = search /\ Here.answer = answer
    /\ stage \in ItemStages => Here.at = at
    /\ stage \in {"class", "category", "parsed"} => Here.err = err
BY DEF Here, At

LEMMA CallbackIs ==
    ASSUME NEW methods, callback(methods)
    PROVE  search' = Called(methods, frame.pc, Here).search /\ answer' = Called(methods, frame.pc, Here).answer
<1>1. CASE search.parse = "search"
  <2>1. /\ search' = [search EXCEPT !.best = Max({search.best} \cup
                         {x \in {m.imp : m \in ToSet(methods)} : x <= frame.pc})]
        /\ answer' = answer
    BY <1>1 DEF callback
  <2> QED
    BY <1>1, <2>1, HereIs DEF Called
<1>2. CASE search.parse # "search"
  <2> DEFINE first == FirstWith(methods, search.best)
  <2>1. /\ search' = [search EXCEPT !.called = search.called \/ first # 0]
        /\ answer' = IF first = 0 \/ search.called THEN answer
                     ELSE objc_symbol_callback(methods[first])
    BY <1>2 DEF callback
  <2> QED
    BY <1>2, <2>1, HereIs DEF Called, objc_symbol_callback
<1> QED
  BY <1>1, <1>2

LEMMA ParseIs ==
    ASSUME IndInv, CacheIsTrue, stage \in ItemStages, NEW rw \in Nat, NEW lists, parse_with_class(rw, lists)
    PROVE  Parsed(process, frame, rw, lists, Here) = [err |-> err', search |-> search', answer |-> answer']
<1>1. ClassError(rw) = ErrorOf(process, rw)
  BY ClassIsTrue
<1>2. CASE ClassError(rw) = "ESUCCESS"
  <2>1. parse_objc2_method_lists(lists, ClassData(rw).name) /\ ClassData(rw) = DataOf(process, rw)
    BY <1>2, ClassIsTrue DEF parse_with_class
  <2>2. cache.mobj["const"] = frame.image
    BY ListsOfImage, NamesOfSections DEF Names
  <2> DEFINE unmapped == {k \in DOMAIN lists : ~ (lists[k].imps = << >> \/ frame.image = lists[k].home)}
             parsed == IF unmapped = {} THEN lists ELSE SubSeq(lists, 1, Min(unmapped) - 1)
             methods == FlattenSeq([k \in DOMAIN parsed |->
                            Methods(parsed[k].imps, DataOf(process, rw).name, parsed[k].meta)])
  <2>3. unmapped = {k \in DOMAIN lists : ~ IsMapped(lists[k])}
    BY <2>2 DEF IsMapped
  <2>4. callback(methods) /\ err' = IF unmapped = {} THEN "ESUCCESS" ELSE "EINVALID_DATA"
    BY <2>1, <2>3 DEF parse_objc2_method_lists
  <2>5. Parsed(process, frame, rw, lists, Here) =
            [err |-> IF unmapped = {} THEN "ESUCCESS" ELSE "EINVALID_DATA",
             search |-> Called(methods, frame.pc, Here).search,
             answer |-> Called(methods, frame.pc, Here).answer]
    BY <1>1, <1>2 DEF Parsed
  <2> HIDE DEF unmapped, methods
  <2> QED
    BY <2>4, <2>5, CallbackIs
<1>3. CASE ClassError(rw) # "ESUCCESS"
  <2>1. err' = ClassError(rw) /\ UNCHANGED <<search, answer>>
    BY <1>3 DEF parse_with_class
  <2> QED
    BY <1>1, <1>3, <2>1, HereIs DEF Parsed
<1> QED
  BY <1>2, <1>3

\* The methods of a class or of a metaclass.
LEMMA ParseMethodsIs ==
    ASSUME IndInv, CacheIsTrue, stage \in ItemStages, NEW rw \in Nat, NEW meta,
           parse_objc2_class_methods(rw, meta)
    PROVE  ParsedMethods(process, frame, rw, meta, Here) =
               [err |-> err', search |-> search', answer |-> answer']
<1> DEFINE of(base) == <<[home |-> base.home, imps |-> base.imps, meta |-> meta]>>
<1>1. parse_with_class(rw, of(ClassData(rw).list))
  BY DEF parse_objc2_class_methods
<1>2. CASE ClassError(rw) = "ESUCCESS"
  <2>1. ClassData(rw) = DataOf(process, rw)
    BY <1>2, ClassIsTrue
  <2>2. parse_with_class(rw, of(DataOf(process, rw).list))
    BY <1>1, <2>1
  <2>3. ParsedMethods(process, frame, rw, meta, Here) =
            Parsed(process, frame, rw, of(DataOf(process, rw).list), Here)
    BY DEF ParsedMethods
  <2> HIDE DEF of
  <2> QED
    BY <2>2, <2>3, ParseIs
<1>3. CASE ClassError(rw) # "ESUCCESS"
  <2>1. Parsed(process, frame, rw, of(ClassData(rw).list), Here) =
            [err |-> err', search |-> search', answer |-> answer']
    <3> HIDE DEF of
    <3> QED
      BY <1>1, ParseIs
  <2>2. \A lists : Parsed(process, frame, rw, lists, Here) =
            [err |-> ErrorOf(process, rw), search |-> search, answer |-> answer]
    BY <1>3, ClassIsTrue, HereIs DEF Parsed
  <2> QED
    BY <2>1, <2>2 DEF ParsedMethods
<1> QED
  BY <1>2, <1>3

\* The steps of a lookup.
LEMMA ClassFollows ==
    ASSUME IndInv, CacheIsTrue, process \in Processes, parseClass
    PROVE  Follows(process, frame, Here, Here')
<1> DEFINE r == [err |-> err', search |-> search', answer |-> answer']
<1>1. stage = "class" /\ at <= Len(classes) /\ classes = image.classlist /\ classes[at].class \in Nat
  BY ListsOfImage, ItemsAreAddresses DEF parseClass, ItemStages
<1>2. ParsedMethods(process, frame, image.classlist[at].class, FALSE, Here) = r
  BY <1>1, ParseMethodsIs DEF parseClass, ItemStages
<1>3. \/ err' = "ESUCCESS" /\ stage' = "metaclass" /\ at' = at
      \/ err' = "ENOTFOUND" /\ stage' = "class" /\ at' = at + 1
      \/ err' \notin {"ESUCCESS", "ENOTFOUND"} /\ stage' = "parsed"
  BY DEF parseClass
<1>4. \/ err' = "ESUCCESS" /\ Here' = At("metaclass", at, "ESUCCESS", r)
      \/ err' = "ENOTFOUND" /\ Here' = At("class", at + 1, "ENOTFOUND", r)
      \/ err' \notin {"ESUCCESS", "ENOTFOUND"} /\ Here' = At("parsed", 0, err', r)
  BY <1>3 DEF Here, At, ItemStages
<1>5. InClass(process, image, frame, Here, Here')
  <2>1. Here.stage = "class" /\ Here.at = at
    BY <1>1, HereIs DEF ItemStages
  <2>2. r.err = err'
    OBVIOUS
  <2>3. ParsedMethods(process, frame, image.classlist[Here.at].class, FALSE, Here) = r
    BY <1>2, <2>1
  <2> HIDE DEF r
  <2> QED
    BY <1>1, <1>4, <2>1, <2>2, <2>3 DEF InClass
<1> QED
  BY <1>5 DEF Follows, image

LEMMA MetaclassFollows ==
    ASSUME IndInv, CacheIsTrue, process \in Processes, parseMetaclass
    PROVE  Follows(process, frame, Here, Here')
<1> DEFINE r == [err |-> err', search |-> search', answer |-> answer']
<1>1. stage = "metaclass" /\ at <= Len(classes) /\ classes = image.classlist /\ classes[at].metaclass \in Nat
  BY ListsOfImage, ItemsAreAddresses DEF parseMetaclass, ItemStages
<1>2. ParsedMethods(process, frame, image.classlist[at].metaclass, TRUE, Here) = r
  BY <1>1, ParseMethodsIs DEF parseMetaclass, ItemStages
<1>3. \/ err' = "ESUCCESS" /\ stage' = "class" /\ at' = at + 1
      \/ err' # "ESUCCESS" /\ stage' = "parsed"
  BY DEF parseMetaclass
<1>4. \/ err' = "ESUCCESS" /\ Here' = At("class", at + 1, "ESUCCESS", r)
      \/ err' # "ESUCCESS" /\ Here' = At("parsed", 0, err', r)
  BY <1>3 DEF Here, At, ItemStages
<1>5. InMetaclass(process, image, frame, Here, Here')
  <2>1. Here.stage = "metaclass" /\ Here.at = at
    BY <1>1, HereIs DEF ItemStages
  <2>2. r.err = err'
    OBVIOUS
  <2>3. ParsedMethods(process, frame, image.classlist[Here.at].metaclass, TRUE, Here) = r
    BY <1>2, <2>1
  <2> HIDE DEF r
  <2> QED
    BY <1>1, <1>4, <2>1, <2>2, <2>3 DEF InMetaclass
<1> QED
  BY <1>5 DEF Follows, image

LEMMA CategoryFollows ==
    ASSUME IndInv, CacheIsTrue, process \in Processes, parseCategory
    PROVE  Follows(process, frame, Here, Here')
<1> DEFINE r == [err |-> err', search |-> search', answer |-> answer']
<1>1. stage = "category" /\ at <= Len(categories) /\ categories = image.catlist /\ categories[at].class \in Nat
  BY ListsOfImage, ItemsAreAddresses DEF parseCategory, ItemStages
<1>2. Parsed(process, frame, image.catlist[at].class, image.catlist[at].lists, Here) = r
  <2>1. parse_with_class(image.catlist[at].class, image.catlist[at].lists) /\ image.catlist[at].class \in Nat
    BY <1>1 DEF parseCategory
  <2> QED
    BY <1>1, <2>1, ParseIs DEF ItemStages
<1>3. \/ err' \in {"ESUCCESS", "ENOTFOUND"} /\ stage' = "category" /\ at' = at + 1
      \/ err' \notin {"ESUCCESS", "ENOTFOUND"} /\ stage' = "parsed"
  BY DEF parseCategory
<1>4. \/ err' \in {"ESUCCESS", "ENOTFOUND"} /\ Here' = At("category", at + 1, err', r)
      \/ err' \notin {"ESUCCESS", "ENOTFOUND"} /\ Here' = At("parsed", 0, err', r)
  BY <1>3 DEF Here, At, ItemStages
<1>5. InCategory(process, image, frame, Here, Here')
  <2>1. Here.stage = "category" /\ Here.at = at
    BY <1>1, HereIs DEF ItemStages
  <2> QED
    BY <1>1, <1>2, <1>4, <2>1 DEF InCategory
<1> QED
  BY <1>5 DEF Follows, image

LEMMA EndsFollow ==
    ASSUME IndInv, CacheIsTrue, process \in Processes, endOfClasses \/ endOfCategories
    PROVE  Follows(process, frame, Here, Here')
<1>1. stage \in ItemStages
  BY DEF endOfClasses, endOfCategories, ItemStages
<1>2. classes = image.classlist /\ categories = image.catlist /\ at \in Nat
  BY <1>1, ListsOfImage DEF CacheIsTrue, ItemStages
<1>3. CASE endOfClasses
  <2>1. /\ stage = "class" /\ at > Len(classes) /\ stage' = "category" /\ at' = 1
        /\ UNCHANGED <<err, search, answer>>
    BY <1>3 DEF endOfClasses
  <2>2. Here' = At("category", 1, err, Here) /\ Here.stage = "class" /\ Here.at = at /\ Here.err = err
    BY <2>1, HereIs DEF Here, At, ItemStages
  <2>3. ~ (at <= Len(image.classlist))
    <3>1. Len(classes) \in Nat
      <4>1. frame.image \in Images
        BY FrameHasImage
      <4> DEFINE Items == [class : Nat, metaclass : Nat]
      <4>2. PICK list : list = classes
        OBVIOUS
      <4>3. list \in Seq(Items)
        BY <1>2, <4>1, <4>2, ListAssumption DEF image
      <4> HIDE DEF Items
      <4> QED
        BY <4>2, <4>3
    <3> QED
      BY <1>2, <2>1, <3>1
  <2>4. InClass(process, image, frame, Here, Here')
    BY <2>2, <2>3 DEF InClass
  <2> QED
    BY <2>4 DEF Follows, image
<1>4. CASE endOfCategories
  <2>1. /\ stage = "category" /\ at > Len(categories) /\ stage' = "parsed"
        /\ UNCHANGED <<err, search, answer>>
    BY <1>4 DEF endOfCategories
  <2>2. Here' = At("parsed", 0, err, Here) /\ Here.stage = "category" /\ Here.at = at /\ Here.err = err
    BY <2>1, HereIs DEF Here, At, ItemStages
  <2>3. ~ (at <= Len(image.catlist))
    <3>1. Len(categories) \in Nat
      <4>1. frame.image \in Images
        BY FrameHasImage
      <4> QED
        BY <1>2, <4>1, ListAssumption DEF image
    <3> QED
      BY <1>2, <2>1, <3>1
  <2>4. InCategory(process, image, frame, Here, Here')
    BY <2>2, <2>3 DEF InCategory
  <2> QED
    BY <2>4 DEF Follows, image
<1> QED
  BY <1>3, <1>4

LEMMA ModulesFollow ==
    ASSUME IndInv, CacheIsTrue, process \in Processes, parse_from_module_info
    PROVE  Follows(process, frame, Here, Here')
<1>0. stage = "modules" /\ Here.stage = "modules"
  BY HereIs DEF parse_from_module_info
<1>1. CASE ~ cache.gotObjC2Info /\ image.modules # << >>
  <2>1. callback(ModuleMethods(image)) /\ err' = "ESUCCESS" /\ stage' = "parsed"
    BY <1>1 DEF parse_from_module_info, ModuleMethods
  <2>2. Here' = At("parsed", 0, "ESUCCESS", Called(ModuleMethods(image), frame.pc, Here))
    BY <2>1, CallbackIs DEF Here, At, ItemStages
  <2>3. InModules(image, frame, Here, Here')
    BY <1>0, <1>1, <2>2 DEF InModules
  <2> QED
    BY <2>3 DEF Follows, image
<1>2. CASE cache.gotObjC2Info \/ image.modules = << >>
  <2>1. image.modules = << >>
    BY <1>2, RuntimeAssumption, FrameHasImage DEF CacheIsTrue, image
  <2>2. stage' = "map" /\ UNCHANGED <<search, answer>>
    BY <1>2, <2>1 DEF parse_from_module_info
  <2>3. Here' = At("map", 0, "ESUCCESS", Here)
    BY <2>2, HereIs DEF Here, At, ItemStages
  <2>4. InModules(image, frame, Here, Here')
    BY <1>0, <2>1, <2>3 DEF InModules
  <2> QED
    BY <2>4 DEF Follows, image
<1> QED
  BY <1>1, <1>2

LEMMA MapFollows ==
    ASSUME IndInv, CacheIsTrue, process \in Processes, map_sections
    PROVE  Follows(process, frame, Here, Here')
<1> DEFINE mapped == {s \in SectionNames : Position(s) <= image.mapped}
<1>0. Here.stage = "map" /\ at' = 1 /\ UNCHANGED <<search, answer>> /\ frame.image # None
  BY HereIs, FrameHasImage, ListAssumption DEF map_sections
<1>1. HasSections(image) <=> mapped = SectionNames
  BY DEF HasSections
<1>2. \/ HasSections(image) /\ err' = "ESUCCESS" /\ stage' = "class"
      \/ ~ HasSections(image) /\ err' = "ENOTFOUND" /\ stage' = "parsed"
  <2>1. CASE cache.lastImage = frame.image
    BY <1>0, <2>1 DEF map_sections, CacheIsTrue, image
  <2>2. CASE cache.lastImage # frame.image
    BY <1>1, <2>2 DEF map_sections
  <2> QED
    BY <2>1, <2>2
<1>3. InMap(image, Here, Here')
  <2>1. CASE HasSections(image)
    <3>1. Here' = At("class", 1, "ESUCCESS", Here)
      BY <1>0, <1>2, <2>1, HereIs DEF Here, At, ItemStages
    <3> QED
      BY <1>0, <2>1, <3>1 DEF InMap
  <2>2. CASE ~ HasSections(image)
    <3>1. Here' = At("parsed", 0, "ENOTFOUND", Here)
      BY <1>0, <1>2, <2>2, HereIs DEF Here, At, ItemStages
    <3> QED
      BY <1>0, <2>2, <3>1 DEF InMap
  <2> QED
    BY <2>1, <2>2
<1> QED
  BY <1>3 DEF Follows, image

LEMMA FindFollows ==
    ASSUME find_method
    PROVE  Follows(process, frame, Here, Here')
<1> DEFINE again == search.parse = "search" /\ err = "ESUCCESS" /\ search.best # 0
           ok == answer.ok \/ (search.parse = "call" /\ err = "ESUCCESS")
<1>0. Here.stage = "parsed" /\ Here.err = err /\ Here.search = search /\ Here.answer = answer
  BY HereIs DEF find_method
<1>1. AfterParse(Here, Here')
  <2>1. CASE again
    <3>1. search' = [search EXCEPT !.parse = "call"] /\ stage' = "modules" /\ UNCHANGED answer
      BY <2>1 DEF find_method
    <3>2. Here' = At("modules", 0, "ESUCCESS",
                     [search |-> [search EXCEPT !.parse = "call"], answer |-> answer])
      BY <3>1 DEF Here, At, ItemStages
    <3> QED
      BY <1>0, <2>1, <3>2 DEF AfterParse
  <2>2. CASE ~ again
    <3>1. /\ stage' = "answer" /\ UNCHANGED search
          /\ answer' = [answer EXCEPT !.ok = ok]
      BY <2>2 DEF find_method
    <3>2. Here' = At("answer", 0, "ESUCCESS", [search |-> search, answer |-> [answer EXCEPT !.ok = ok]])
      BY <3>1 DEF Here, At, ItemStages
    <3> QED
      BY <1>0, <2>2, <3>2 DEF AfterParse
  <2> QED
    BY <2>1, <2>2
<1> QED
  BY <1>1 DEF Follows

\* It begins with the symbol table.
LEMMA Begins ==
    ASSUME searchSymbolTable
    PROVE  Here' = Begun(process, strategy, frame)
<1> DEFINE found == IF "symtab" \in strategy THEN find_symbol_by_pc(image, frame.pc) ELSE NoSymbol
<1>1. /\ answer' = [ok |-> found # NoSymbol, symbol |-> found]
      /\ stage' = IF "objc" \in strategy THEN "modules" ELSE "answer"
      /\ search' = [parse |-> "search", best |-> 0, called |-> FALSE]
  BY DEF searchSymbolTable
<1>2. Begun(process, strategy, frame) =
          At(IF "objc" \in strategy THEN "modules" ELSE "answer", 0, "ESUCCESS",
             [search |-> [parse |-> "search", best |-> 0, called |-> FALSE],
              answer |-> [ok |-> found # NoSymbol, symbol |-> found]])
  BY DEF Begun, image
<1> HIDE DEF found
<1> QED
  BY <1>1, <1>2 DEF Here, At, ItemStages

----------------------------------------------------------------------------
(* The writer: each of its lookups for a frame comes to the same answer.   *)

\* What an answer's message tells of its symbol.
Shown(a) == IF a.ok /\ a.symbol # NoSymbol THEN a.symbol ELSE NoSymbol

\* What is written for a frame.
Written(p, st, f, x) ==
    \E a : Answered(p, st, f, a) /\ x = [header |-> Shown(a), body |-> Shown(a)]

LEMMA OneIsWritten ==
    ASSUME NEW p, NEW st, NEW f, NEW x, NEW y, Written(p, st, f, x), Written(p, st, f, y)
    PROVE  x = y /\ x.header = x.body
<1>1. PICK a : Answered(p, st, f, a) /\ x = [header |-> Shown(a), body |-> Shown(a)]
  BY DEF Written
<1>2. PICK b : Answered(p, st, f, b) /\ y = [header |-> Shown(b), body |-> Shown(b)]
  BY DEF Written
<1>3. a = b
  BY <1>1, <1>2, OneAnswer
<1> QED
  BY <1>1, <1>2, <1>3

LookupGoesItsWay == stage \in LookupStages => Reached(process, strategy, frame, Here)

\* What the calls for a frame's symbol have added up.
CallsAgree ==
    stage \in LookupStages \cup {"macho"} =>
        /\ turn.call = 1 => rv = Nothing
        /\ turn.call = 2 => \E a : /\ Answered(process, strategy, frame, a) /\ Shown(a) # NoSymbol
                                   /\ rv = [header |-> Shown(a), body |-> NoSymbol]

SizesAreWritten ==
    /\ sizes = [frame |-> sizes.frame, thread |-> sizes.thread]
    /\ turn.message => Written(process, strategy, frame, sizes.frame)
    /\ \E S : sizes.thread \in Seq(S)
    /\ Len(sizes.thread) = IF turn.pass = "size" THEN turn.frame - 1 ELSE Len(stack)
    /\ \A k \in 1 .. Len(sizes.thread) : Written(process, strategy, stack[k], sizes.thread[k])

WriterInv ==
    /\ LookupGoesItsWay /\ CallsAgree
    /\ stage = "packed" => Written(process, strategy, frame, rv)
    /\ stage \notin {"written", "freed"} => SizesAreWritten

\* What the writer's invariant says of sizes.
LEMMA WriterFits ==
    ASSUME IndInv, WriterInv
    PROVE  FramesFitTheirSize
<1> SUFFICES ASSUME stage = "packed"
             PROVE  /\ rv.header = rv.body
                    /\ turn.message => rv = sizes.frame
                    /\ turn.pass = "write" /\ turn.message => rv = sizes.thread[turn.frame]
  BY DEF FramesFitTheirSize
<1>1. Written(process, strategy, frame, rv) /\ SizesAreWritten
  BY DEF WriterInv
<1>2. rv.header = rv.body
  BY <1>1, OneIsWritten
<1>3. ASSUME turn.message PROVE rv = sizes.frame
  BY <1>1, <1>3, OneIsWritten DEF SizesAreWritten
<1>4. ASSUME turn.pass = "write" PROVE rv = sizes.thread[turn.frame]
  <2>1. turn.frame \in 1 .. Len(sizes.thread)
    BY <1>1, <1>4, Unchanged DEF SizesAreWritten, IndInv
  <2>2. Written(process, strategy, frame, sizes.thread[turn.frame])
    BY <1>1, <2>1 DEF SizesAreWritten, frame
  <2> QED
    BY <1>1, <2>2, OneIsWritten
<1> QED
  BY <1>2, <1>3, <1>4

\* A step of a lookup.
LEMMA LookupStep ==
    ASSUME WriterInv, stage \notin {"written", "freed"}, UNCHANGED <<process, strategy, writer>>,
           stage' \in LookupStages, stage \in LookupStages \cup {"macho"},
           Reached(process, strategy, frame, Here')
    PROVE  WriterInv'
<1>1. frame' = frame /\ turn' = turn /\ rv' = rv /\ sizes' = sizes /\ stack' = stack
  BY DEF writer, frame
<1>2. LookupGoesItsWay'
  BY <1>1 DEF LookupGoesItsWay
<1>3. CallsAgree'
  BY <1>1 DEF WriterInv, CallsAgree
<1>4. SizesAreWritten'
  BY <1>1 DEF WriterInv, SizesAreWritten
<1>5. stage' # "packed"
  BY DEF LookupStages, ItemStages
<1> QED
  BY <1>2, <1>3, <1>4, <1>5 DEF WriterInv

LEMMA LookupSteps ==
    ASSUME IndInv, CacheIsTrue, process \in Processes, WriterInv,
           \/ searchSymbolTable \/ parse_from_module_info \/ map_sections \/ parseClass \/ parseMetaclass
           \/ endOfClasses \/ parseCategory \/ endOfCategories \/ find_method
    PROVE  WriterInv'
<1>1. /\ stage \in LookupStages \cup {"macho"} /\ stage' \in LookupStages
      /\ UNCHANGED <<process, strategy, writer>>
  <2>1. CASE searchSymbolTable \/ parse_from_module_info \/ map_sections
    BY <2>1 DEF searchSymbolTable, parse_from_module_info, map_sections, LookupStages, ItemStages
  <2>2. CASE parseClass \/ parseMetaclass \/ endOfClasses
    BY <2>2 DEF parseClass, parseMetaclass, endOfClasses, LookupStages, ItemStages
  <2>3. CASE parseCategory \/ endOfCategories \/ find_method
    BY <2>3 DEF parseCategory, endOfCategories, find_method, LookupStages, ItemStages
  <2> QED
    BY <2>1, <2>2, <2>3
<1>2. stage \notin {"written", "freed"}
  BY <1>1 DEF LookupStages, ItemStages
<1>3. CASE searchSymbolTable
  <2>1. Reached(process, strategy, frame, Here')
    BY <1>3, Begins, ReachedFirst
  <2> QED
    BY <1>1, <1>2, <2>1, LookupStep
<1>4. CASE ~ searchSymbolTable
  <2>1. stage \in LookupStages
    BY <1>4 DEF parse_from_module_info, map_sections, parseClass, parseMetaclass, endOfClasses,
                parseCategory, endOfCategories, find_method, LookupStages, ItemStages
  <2>2. Follows(process, frame, Here, Here')
    BY <1>4, ModulesFollow, MapFollows, ClassFollows, MetaclassFollows, EndsFollow, CategoryFollows, FindFollows
  <2>3. Reached(process, strategy, frame, Here')
    <3>1. Reached(process, strategy, frame, Here)
      BY <2>1 DEF WriterInv, LookupGoesItsWay
    <3> DEFINE d == Here'
    <3>2. Follows(process, frame, Here, d)
      BY <2>2
    <3> HIDE DEF d
    <3>3. Reached(process, strategy, frame, d)
      BY <3>1, <3>2, ReachedNext
    <3> QED
      BY <3>3 DEF d
  <2> QED
    BY <1>1, <1>2, <2>3, LookupStep
<1> QED
  BY <1>3, <1>4

\* What a lookup has answered.
LEMMA AnswerIs ==
    ASSUME WriterInv, stage = "answer"
    PROVE  Answered(process, strategy, frame, answer)
BY HereIs DEF WriterInv, LookupGoesItsWay, LookupStages, Answered

LEMMA WriteThreadFrameStep ==
    ASSUME IndInv, WriterInv, write_thread_frame
    PROVE  WriterInv'
<1>0. /\ stage = "answer" /\ UNCHANGED <<process, strategy, stack, sizes>>
      /\ stage \in LookupStages /\ stage \notin {"written", "freed"} /\ turn.call \in 1 .. 2
  BY Unchanged DEF write_thread_frame, LookupStages
<1>1. Answered(process, strategy, frame, answer)
  BY <1>0, AnswerIs
<1>2. /\ turn.call = 1 => rv = Nothing
      /\ turn.call = 2 => Shown(answer) # NoSymbol /\ rv = [header |-> Shown(answer), body |-> NoSymbol]
  BY <1>0, <1>1, OneAnswer DEF WriterInv, CallsAgree
<1>3. IsFound <=> Shown(answer) # NoSymbol
  BY DEF IsFound, Shown
<1>4. IsFound => Shown(answer) = answer.symbol
  BY DEF IsFound, Shown
<1>5. SizesAreWritten
  BY <1>0 DEF WriterInv
<1>6. CASE IsFound /\ turn.call = 1
  <2>1. /\ rv' = [rv EXCEPT !.header = answer.symbol] /\ turn' = [turn EXCEPT !.call = 2] /\ stage' = "macho"
    BY <1>6 DEF write_thread_frame
  <2>2. rv' = [header |-> Shown(answer), body |-> NoSymbol]
    BY <1>2, <1>4, <1>6, <2>1 DEF Nothing
  <2>3. /\ turn'.call = 2 /\ turn'.frame = turn.frame /\ turn'.message = turn.message /\ turn'.pass = turn.pass
        /\ frame' = frame
    BY <1>0, <2>1, Unchanged DEF frame
  <2>4. CallsAgree'
    BY <1>0, <1>1, <1>3, <1>6, <2>2, <2>3 DEF CallsAgree
  <2>5. SizesAreWritten'
    BY <1>0, <1>5, <2>3 DEF SizesAreWritten
  <2> QED
    BY <2>1, <2>4, <2>5 DEF WriterInv, LookupGoesItsWay, LookupStages, ItemStages
<1>7. CASE ~ (IsFound /\ turn.call = 1)
  <2>1. stage' = "packed" /\ UNCHANGED turn /\ frame' = frame
    BY <1>0, <1>7 DEF write_thread_frame, frame
  <2>2. rv' = [header |-> Shown(answer), body |-> Shown(answer)]
    <3>1. CASE IsFound
      <4>1. rv' = [rv EXCEPT !.body = answer.symbol] /\ turn.call = 2
        BY <1>0, <1>7, <3>1 DEF write_thread_frame
      <4> QED
        BY <1>2, <1>4, <3>1, <4>1
    <3>2. CASE ~ IsFound
      <4>1. rv' = rv /\ turn.call = 1 /\ Shown(answer) = NoSymbol
        BY <1>0, <1>2, <1>3, <3>2 DEF write_thread_frame
      <4> QED
        BY <1>2, <4>1 DEF Nothing
    <3> QED
      BY <3>1, <3>2
  <2>3. Written(process, strategy, frame, rv')
    BY <1>1, <2>2 DEF Written
  <2>4. SizesAreWritten'
    BY <1>0, <1>5, <2>1 DEF SizesAreWritten
  <2> QED
    BY <1>0, <2>1, <2>3, <2>4 DEF WriterInv, LookupGoesItsWay, CallsAgree, LookupStages, ItemStages
<1> QED
  BY <1>6, <1>7

LEMMA AppendIs ==
    ASSUME NEW S, NEW s \in Seq(S), NEW x
    PROVE  /\ Append(s, x) \in Seq(S \cup {x}) /\ Len(s) \in Nat /\ Len(Append(s, x)) = Len(s) + 1
           /\ \A k \in 1 .. Len(s) : Append(s, x)[k] = s[k]
           /\ Append(s, x)[Len(s) + 1] = x
<1> DEFINE T == S \cup {x}
<1>1. s \in Seq(T)
  <2>1. \A k \in 1 .. Len(s) : s[k] \in T
    BY ElementOfSeq
  <2> HIDE DEF T
  <2> QED
    BY <2>1, SeqMonotonic
<1>2. x \in T
  OBVIOUS
<1> HIDE DEF T
<1>3. Append(s, x) \in Seq(T)
  BY <1>1, <1>2
<1> QED
  BY <1>1, <1>2, <1>3, AppendProperties DEF T

LEMMA WriteThreadStep ==
    ASSUME IndInv, WriterInv, write_thread
    PROVE  WriterInv'
<1> DEFINE last == turn.message /\ turn.frame = Len(stack)
           thread == sizes.thread
<1>0. /\ stage = "packed" /\ UNCHANGED <<process, strategy, stack>> /\ rv' = Nothing
      /\ stage' \in {"written", "macho"}
      /\ turn.pass \in {"size", "write"} /\ turn.frame \in Nat /\ Len(stack) \in Nat
  BY Unchanged DEF write_thread, IndInv
<1>1. SizesAreWritten /\ Written(process, strategy, frame, rv)
  BY <1>0 DEF WriterInv
<1>2. /\ turn' = IF ~ turn.message THEN [turn EXCEPT !.message = TRUE, !.call = 1]
                 ELSE IF ~ last THEN [turn EXCEPT !.frame = @ + 1, !.message = FALSE, !.call = 1]
                 ELSE [FirstTurn EXCEPT !.pass = "write"]
      /\ stage' = IF last /\ turn.pass = "write" THEN "written" ELSE "macho"
      /\ sizes' = IF ~ turn.message THEN [sizes EXCEPT !.frame = rv]
                  ELSE IF turn.pass = "size" THEN [sizes EXCEPT !.thread = Append(@, rv)]
                  ELSE sizes
  BY DEF write_thread
<1>3. turn'.call = 1
  <2>1. turn = [pass |-> turn.pass, frame |-> turn.frame, message |-> turn.message, call |-> turn.call]
    BY Unchanged
  <2> QED
    BY <1>2, <2>1 DEF FirstTurn
<1>4. SUFFICES ASSUME stage' # "written" PROVE SizesAreWritten'
  BY <1>0, <1>3 DEF WriterInv, LookupGoesItsWay, CallsAgree, LookupStages, ItemStages
<1>5. CASE ~ turn.message
  <2>1. /\ turn'.message = TRUE /\ turn'.frame = turn.frame /\ turn'.pass = turn.pass
    BY <1>2, <1>5, Unchanged
  <2>2. sizes' = [frame |-> rv, thread |-> thread]
    BY <1>1, <1>2, <1>5 DEF SizesAreWritten
  <2>3. frame' = frame
    BY <1>0, <2>1 DEF frame
  <2> QED
    BY <1>0, <1>1, <2>1, <2>2, <2>3 DEF SizesAreWritten
<1>6. CASE turn.message
  <2> DEFINE longer == Append(thread, rv)
  <2>1. PICK S : thread \in Seq(S)
    BY <1>1 DEF SizesAreWritten
  <2>2. /\ longer \in Seq(S \cup {rv}) /\ Len(thread) \in Nat /\ Len(longer) = Len(thread) + 1
        /\ \A k \in 1 .. Len(thread) : longer[k] = thread[k]
        /\ longer[Len(thread) + 1] = rv
    BY <2>1, AppendIs
  <2>3. /\ Len(thread) = IF turn.pass = "size" THEN turn.frame - 1 ELSE Len(stack)
        /\ \A k \in 1 .. Len(thread) : Written(process, strategy, stack[k], thread[k])
        /\ sizes = [frame |-> sizes.frame, thread |-> thread]
    BY <1>1 DEF SizesAreWritten
  <2>4. \/ ~ last /\ turn'.message = FALSE /\ turn'.frame = turn.frame + 1 /\ turn'.pass = turn.pass
        \/ last /\ turn'.message = FALSE /\ turn'.pass = "write" /\ turn.frame = Len(stack)
    BY <1>2, <1>6, Unchanged DEF FirstTurn
  <2>5. CASE turn.pass = "size"
    <3> HIDE DEF longer
    <3>1. sizes' = [frame |-> sizes.frame, thread |-> longer]
      <4>1. sizes' = [sizes EXCEPT !.thread = longer]
        BY <1>2, <1>6, <2>5 DEF longer
      <4> QED
        BY <2>3, <4>1
    <3>2. ASSUME NEW k \in 1 .. Len(longer) PROVE Written(process, strategy, stack[k], longer[k])
      <4>1. CASE k = Len(thread) + 1
        <5>1. k = turn.frame /\ longer[k] = rv
          BY <1>0, <2>2, <2>3, <2>5, <4>1
        <5> QED
          BY <1>1, <5>1 DEF frame
      <4>2. CASE k # Len(thread) + 1
        BY <2>2, <2>3, <4>2
      <4> QED
        BY <4>1, <4>2
    <3>3. Len(longer) = IF turn'.pass = "size" THEN turn'.frame - 1 ELSE Len(stack)
      BY <1>0, <2>2, <2>3, <2>4, <2>5
    <3>4. sizes'.thread = longer /\ sizes' = [frame |-> sizes'.frame, thread |-> sizes'.thread]
      BY <3>1
    <3> QED
      BY <1>0, <2>2, <2>4, <3>2, <3>3, <3>4 DEF SizesAreWritten
  <2>6. CASE turn.pass # "size"
    <3>1. sizes' = sizes /\ turn'.pass = "write" /\ turn'.message = FALSE
      BY <1>0, <1>2, <1>6, <2>4, <2>6
    <3> QED
      BY <1>0, <2>1, <2>3, <2>6, <3>1 DEF SizesAreWritten
  <2> QED
    BY <2>5, <2>6
<1> QED
  BY <1>5, <1>6, Unchanged

LEMMA InitWriter == Init => WriterInv
<1> SUFFICES ASSUME Init PROVE WriterInv
  OBVIOUS
<1>1. /\ stage = "macho" /\ turn = FirstTurn /\ rv = Nothing /\ sizes = [frame |-> Nothing, thread |-> << >>]
  BY DEF Init
<1>2. sizes.thread \in Seq({}) /\ Len(sizes.thread) = 0
  BY <1>1, EmptySeq
<1> QED
  BY <1>1, <1>2 DEF WriterInv, LookupGoesItsWay, CallsAgree, SizesAreWritten, LookupStages, ItemStages, FirstTurn

\* Every step preserves what the sizes rest on.
LEMMA NextWriter ==
    ASSUME IndInv, CacheIsTrue, process \in Processes, WriterInv, [Next]_vars
    PROVE  WriterInv'
<1>1. CASE cache_free
  BY <1>1 DEF cache_free, WriterInv, LookupGoesItsWay, CallsAgree, LookupStages, ItemStages
<1>2. CASE UNCHANGED vars
  BY <1>2 DEF vars, writer, lookup, WriterInv, LookupGoesItsWay, CallsAgree, SizesAreWritten, Here, frame
<1> QED
  BY <1>1, <1>2, LookupSteps, WriteThreadFrameStep, WriteThreadStep DEF Next

\* What a class of the cache is said to be and whose lists are parsed is the process's and
\* the frame's own, whatever was looked up before: the table has one slot for many classes,
\* and the sections stay mapped from one lookup to the next.
THEOREM CacheStaysTrue == Spec => []CacheIsTrue
<1>1. Init => process \in Processes /\ CacheIsTrue
  BY InitTrue DEF Init
<1>2. IndInv /\ (process \in Processes /\ CacheIsTrue) /\ [Next]_vars => (process \in Processes /\ CacheIsTrue)'
  BY NextTrue
<1>3. Spec => [](process \in Processes /\ CacheIsTrue)
  BY <1>1, <1>2, InvariantHolds, PTL DEF Spec
<1> QED
  BY <1>3, PTL

\* Whatever the stack, the classes and the cache, the messages of a symbol, of a frame and of
\* a thread have the sizes that were written before them, although each is made of lookups of
\* its own: the cache changes in between, and with it what they read, but not what they find.
THEOREM MessagesFitTheirSize == Spec => []FramesFitTheirSize
<1> DEFINE All == IndInv /\ CacheIsTrue /\ process \in Processes /\ WriterInv
<1>1. Init => All
  BY InitInv, InitTrue, InitWriter DEF Init
<1>2. All /\ [Next]_vars => All'
  BY NextInv, NextTrue, NextWriter
<1>3. All => FramesFitTheirSize
  BY WriterFits
<1> HIDE DEF All
<1> QED
  BY <1>1, <1>2, <1>3, PTL DEF Spec

----------------------------------------------------------------------------
(* The search of the symbol table: the fold of a table's entries is the    *)
(* last of the folds of its beginnings.                                    *)

Step(found, entry, slide_pc) ==
    IF /\ entry.kind = "section" /\ entry.value <= slide_pc
       /\ found = NoEntry \/ found.value < entry.value
    THEN entry ELSE found

\* The folds of a table's beginnings.
IsFold(g, table, slide_pc, prev, n) ==
    g = [s \in SUBSET (1 .. n) |->
            IF s = {} THEN prev ELSE Step(g[s \ {Max(s)}], table[Max(s)], slide_pc)]

LEMMA GreatestIs ==
    ASSUME NEW n \in Nat, NEW s \in SUBSET (1 .. n + 1), n + 1 \in s
    PROVE  Max(s) = n + 1 /\ s \ {n + 1} \in SUBSET (1 .. n)
<1>1. n + 1 \in s /\ \A y \in s : n + 1 >= y
  OBVIOUS
<1>2. \A x \in s : (\A y \in s : x >= y) => x = n + 1
  OBVIOUS
<1>3. Max(s) \in s /\ \A y \in s : Max(s) >= y
  BY <1>1 DEF Max
<1>4. Max(s) = n + 1
  BY <1>2, <1>3
<1>5. s \ {n + 1} \in SUBSET (1 .. n)
  OBVIOUS
<1> QED
  BY <1>4, <1>5

LEMMA GreatestExists ==
    ASSUME NEW n \in Nat, NEW s \in SUBSET (0 .. n), s # {}
    PROVE  Max(s) \in s /\ \A y \in s : Max(s) >= y
<1> DEFINE T == {k \in 0 .. n : \A y \in s : k >= y}
<1>1. n \in T /\ T \in SUBSET Nat
  OBVIOUS
<1>2. PICK k \in T : \A j \in T : k <= j
  <2> HIDE DEF T
  <2> QED
    BY <1>1, LeastNumber
<1>3. k \in s
  <2>1. ASSUME k \notin s PROVE FALSE
    <3>0. PICK z : z \in s /\ z \in 0 .. n
      OBVIOUS
    <3>1. k - 1 \in T
      <4>1. k \in 0 .. n /\ \A y \in s : k >= y /\ y \in 0 .. n /\ y # k
        BY <1>2, <2>1
      <4>2. k - 1 \in 0 .. n /\ \A y \in s : k - 1 >= y
        BY <3>0, <4>1
      <4> QED
        BY <4>2
    <3> QED
      BY <1>2, <3>1
  <2> QED
    BY <2>1
<1> QED
  BY <1>2, <1>3 DEF Max

LEMMA FoldExists ==
    ASSUME NEW table, NEW slide_pc, NEW prev, NEW n \in Nat
    PROVE  \E g : IsFold(g, table, slide_pc, prev, n)
<1> DEFINE T == {k \in Nat : ~ \E g : IsFold(g, table, slide_pc, prev, k)}
<1>1. SUFFICES ASSUME T # {} PROVE FALSE
  OBVIOUS
<1>2. PICK k \in T : \A j \in T : k <= j
  <2>1. T \in SUBSET Nat
    OBVIOUS
  <2> HIDE DEF T
  <2> QED
    BY <1>1, <2>1, LeastNumber
<1>3. k # 0
  <2>1. ASSUME k = 0 PROVE FALSE
    <3> DEFINE g == [s \in SUBSET (1 .. 0) |-> prev]
    <3>1. \A s \in SUBSET (1 .. 0) : s = {}
      OBVIOUS
    <3>2. IsFold(g, table, slide_pc, prev, 0)
      BY <3>1 DEF IsFold
    <3> QED
      BY <1>2, <2>1, <3>2
  <2> QED
    BY <2>1
<1>4. PICK j \in Nat : k = j + 1
  <2>1. k - 1 \in Nat /\ k = (k - 1) + 1
    BY <1>2, <1>3
  <2> QED
    BY <2>1
<1>5. PICK g : IsFold(g, table, slide_pc, prev, j)
  BY <1>2, <1>4
<1> DEFINE h == [s \in SUBSET (1 .. j + 1) |->
                    IF j + 1 \in s THEN Step(g[s \ {j + 1}], table[j + 1], slide_pc) ELSE g[s]]
<1>6. ASSUME NEW s \in SUBSET (1 .. j + 1)
      PROVE  h[s] = IF s = {} THEN prev ELSE Step(h[s \ {Max(s)}], table[Max(s)], slide_pc)
  <2>1. CASE j + 1 \in s
    <3>1. Max(s) = j + 1 /\ s \ {j + 1} \in SUBSET (1 .. j)
      BY <2>1, GreatestIs
    <3>2. h[s \ {j + 1}] = g[s \ {j + 1}]
      OBVIOUS
    <3>3. h[s] = Step(g[s \ {j + 1}], table[j + 1], slide_pc)
      BY <2>1
    <3> HIDE DEF h
    <3> QED
      BY <2>1, <3>1, <3>2, <3>3
  <2>2. CASE j + 1 \notin s
    <3>1. s \in SUBSET (1 .. j)
      BY <2>2
    <3>2. h[s] = g[s]
      BY <2>2
    <3>3. g[s] = IF s = {} THEN prev ELSE Step(g[s \ {Max(s)}], table[Max(s)], slide_pc)
      BY <1>5, <3>1 DEF IsFold
    <3>4. h[s \ {Max(s)}] = g[s \ {Max(s)}]
      BY <2>2
    <3> HIDE DEF h
    <3> QED
      BY <3>2, <3>3, <3>4
  <2> QED
    BY <2>1, <2>2
<1>7. h = [s \in SUBSET (1 .. j + 1) |-> h[s]]
  OBVIOUS
<1> HIDE DEF h
<1>8. IsFold(h, table, slide_pc, prev, j + 1)
  BY <1>6, <1>7 DEF IsFold
<1> QED
  BY <1>2, <1>4, <1>8

\* What the search of a table has found after each entry.
Searched(q, table, slide_pc, prev) ==
    /\ q[0] = prev
    /\ \A k \in 0 .. Len(table) - 1 : q[k + 1] = Step(q[k], table[k + 1], slide_pc)

LEMMA BestIs ==
    ASSUME NEW table, Len(table) \in Nat, DOMAIN table = 1 .. Len(table), NEW slide_pc, NEW prev
    PROVE  \E q : Searched(q, table, slide_pc, prev)
                  /\ find_best_symbol(table, slide_pc, prev) = q[Len(table)]
<1> DEFINE n == Len(table)
           fold == CHOOSE g : IsFold(g, table, slide_pc, prev, n)
<1>1. IsFold(fold, table, slide_pc, prev, n)
  BY FoldExists
<1>2. find_best_symbol(table, slide_pc, prev) = fold[1 .. n]
  BY DEF find_best_symbol, FoldLeft, MapThenFoldSet, IsFold, Step
<1> HIDE DEF fold
<1> DEFINE q == [k \in 0 .. n |-> fold[1 .. k]]
<1>3. q[0] = prev
  <2>1. 1 .. 0 = {} /\ 1 .. 0 \in SUBSET (1 .. n)
    OBVIOUS
  <2>2. fold[1 .. 0] = prev
    BY <1>1, <2>1 DEF IsFold
  <2> QED
    BY <2>2
<1>4. ASSUME NEW k \in 0 .. n - 1 PROVE q[k + 1] = Step(q[k], table[k + 1], slide_pc)
  <2>1. 1 .. k + 1 \in SUBSET (1 .. n) /\ k \in Nat /\ k + 1 \in 1 .. k + 1
    OBVIOUS
  <2>2. Max(1 .. k + 1) = k + 1
    BY <2>1, GreatestIs
  <2>3. (1 .. k + 1) \ {k + 1} = 1 .. k
    BY <2>1
  <2>4. fold[1 .. k + 1] = Step(fold[1 .. k], table[k + 1], slide_pc)
    BY <1>1, <2>1, <2>2, <2>3 DEF IsFold
  <2> QED
    BY <2>4
<1>5. find_best_symbol(table, slide_pc, prev) = q[n]
  BY <1>2
<1> HIDE DEF q
<1> QED
  BY <1>3, <1>4, <1>5 DEF Searched

IsBefore(e, slide_pc) == e.kind = "section" /\ e.value <= slide_pc

\* What was found is the greatest of some entries.
IsBest(found, A, slide_pc) ==
    \/ found = NoEntry /\ \A e \in A : ~ IsBefore(e, slide_pc)
    \/ found \in A /\ IsBefore(found, slide_pc) /\ \A e \in A : IsBefore(e, slide_pc) => e.value <= found.value

LEMMA StepIsBest ==
    ASSUME NEW found, NEW A, NEW entry, NEW slide_pc \in Int, entry.value \in Nat,
           \A e \in A : e.value \in Nat, IsBest(found, A, slide_pc)
    PROVE  IsBest(Step(found, entry, slide_pc), A \cup {entry}, slide_pc)
<1>1. found # NoEntry => found.value \in Nat /\ found \in A
  BY DEF IsBest
<1>2. CASE ~ IsBefore(entry, slide_pc)
  BY <1>2 DEF IsBest, Step, IsBefore
<1>3. CASE IsBefore(entry, slide_pc) /\ (found = NoEntry \/ found.value < entry.value)
  <2>1. Step(found, entry, slide_pc) = entry
    BY <1>3 DEF Step, IsBefore
  <2>2. \A e \in A : IsBefore(e, slide_pc) => e.value <= entry.value
    <3>1. CASE found = NoEntry
      BY <3>1 DEF IsBest, IsBefore, NoEntry
    <3>2. CASE found # NoEntry
      <4>1. found.value < entry.value /\ found.value \in Nat
        BY <1>1, <1>3, <3>2
      <4>2. \A e \in A : IsBefore(e, slide_pc) => e.value <= found.value
        BY <3>2 DEF IsBest
      <4> QED
        BY <4>1, <4>2
    <3> QED
      BY <3>1, <3>2
  <2> QED
    BY <1>3, <2>1, <2>2 DEF IsBest
<1>4. CASE IsBefore(entry, slide_pc) /\ found # NoEntry /\ ~ (found.value < entry.value)
  <2>1. Step(found, entry, slide_pc) = found
    BY <1>4 DEF Step
  <2>2. found \in A /\ IsBefore(found, slide_pc) /\ \A e \in A : IsBefore(e, slide_pc) => e.value <= found.value
    BY <1>4 DEF IsBest
  <2>3. entry.value <= found.value
    BY <1>1, <1>4
  <2> QED
    BY <2>1, <2>2, <2>3 DEF IsBest
<1> QED
  BY <1>2, <1>3, <1>4

\* The search of a table goes on from what was found before.
LEMMA SearchIsBest ==
    ASSUME NEW table, IsList(table), NEW slide_pc \in Int, NEW prev, NEW A,
           \A e \in A \cup ToSet(table) : e.value \in Nat, IsBest(prev, A, slide_pc)
    PROVE  IsBest(find_best_symbol(table, slide_pc, prev), A \cup ToSet(table), slide_pc)
<1> DEFINE n == Len(table)
           B(k) == A \cup {table[j] : j \in 1 .. k}
<1>1. n \in Nat /\ DOMAIN table = 1 .. n
  BY LenProperties DEF IsList
<1>2. PICK q : Searched(q, table, slide_pc, prev) /\ find_best_symbol(table, slide_pc, prev) = q[n]
  BY <1>1, BestIs
<1> DEFINE T == {k \in 0 .. n : ~ IsBest(q[k], B(k), slide_pc)}
<1>3. T = {}
  <2> SUFFICES ASSUME T # {} PROVE FALSE
    OBVIOUS
  <2>1. PICK k \in T : \A j \in T : k <= j
    <3>1. T \in SUBSET Nat
      BY <1>1
    <3> HIDE DEF T
    <3> QED
      BY <3>1, LeastNumber
  <2>2. k # 0
    <3>1. B(0) = A
      OBVIOUS
    <3> QED
      BY <1>2, <2>1, <3>1 DEF Searched
  <2>3. PICK j : j = k - 1
    OBVIOUS
  <2>4. j \in 0 .. n - 1 /\ j \in 0 .. n /\ k = j + 1 /\ j \notin T
    <3>1. k \in 0 .. n /\ \A i \in T : k <= i
      BY <2>1
    <3>2. j \in 0 .. n - 1 /\ j \in 0 .. n /\ k = j + 1 /\ ~ (k <= j)
      BY <1>1, <2>2, <2>3, <3>1
    <3> HIDE DEF T
    <3> QED
      BY <3>1, <3>2
  <2>5. IsBest(q[j], B(j), slide_pc)
    BY <2>4
  <2>6. q[k] = Step(q[j], table[k], slide_pc)
    BY <1>2, <2>4 DEF Searched
  <2>7. B(k) = B(j) \cup {table[k]}
    BY <2>4
  <2>8. table[k].value \in Nat /\ \A e \in B(j) : e.value \in Nat
    <3>1. \A i \in 1 .. n : table[i] \in ToSet(table)
      BY <1>1 DEF ToSet
    <3>2. k \in 1 .. n /\ \A i \in 1 .. j : i \in 1 .. n
      BY <1>1, <2>4
    <3> QED
      BY <3>1, <3>2
  <2> DEFINE C == B(j)
  <2>9. IsBest(q[j], C, slide_pc) /\ \A e \in C : e.value \in Nat
    BY <2>5, <2>8
  <2>10. B(k) = C \cup {table[k]}
    BY <2>7
  <2> HIDE DEF C
  <2>11. IsBest(q[k], C \cup {table[k]}, slide_pc)
    BY <2>6, <2>8, <2>9, StepIsBest
  <2> QED
    BY <2>1, <2>10, <2>11
<1>4. IsBest(q[n], B(n), slide_pc)
  <2>1. n \in 0 .. n
    BY <1>1
  <2>2. n \notin T
    <3> HIDE DEF T
    <3> QED
      BY <1>3
  <2> QED
    BY <2>1, <2>2
<1>5. B(n) = A \cup ToSet(table)
  BY <1>1 DEF ToSet
<1> QED
  BY <1>2, <1>4, <1>5

\* The symbols of a range are entries of the table.
LEMMA RangeIs ==
    ASSUME process \in Processes, NEW j \in Images, IsReadable(process.images[j]),
           NEW range \in {process.images[j].global, process.images[j].local}
    PROVE  LET symbols == SymbolsIn(process.images[j], range)
           IN IsList(symbols) /\ ToSet(symbols) \subseteq ToSet(process.images[j].symtab)
<1> DEFINE symtab == process.images[j].symtab
           S == ToSet(symtab)
           m == range.first
           n == range.first + range.count - 1
           symbols == SymbolsIn(process.images[j], range)
<1>1. symtab \in Seq(S) /\ m \in Nat \ {0} /\ range.count \in Nat
  BY CodeAssumption DEF IsList
<1>2. n <= Len(symtab)
  BY DEF IsReadable
<1>3. Len(symtab) \in Nat
  BY <1>1, LenProperties
<1>4. m \in 1 .. Len(symtab) + 1 /\ n \in m - 1 .. Len(symtab)
  BY <1>1, <1>2, <1>3
<1>5. symbols = SubSeq(symtab, m, n)
  BY DEF SymbolsIn
<1> HIDE DEF symtab, m, n, S, symbols
<1>6. /\ SubSeq(symtab, m, n) \in Seq(S)
      /\ Len(SubSeq(symtab, m, n)) = IF m <= n THEN n - m + 1 ELSE 0
      /\ \A k \in 1 .. Len(SubSeq(symtab, m, n)) : SubSeq(symtab, m, n)[k] = symtab[m + k - 1]
  BY <1>1, <1>4, SubSeqProperties
<1>7. symbols \in Seq(S)
  BY <1>5, <1>6
<1>8. symbols \in Seq(ToSet(symbols)) /\ ToSet(symbols) \subseteq S
  <2>1. Len(symbols) \in Nat /\ DOMAIN symbols = 1 .. Len(symbols) /\ symbols \in [1 .. Len(symbols) -> S]
    BY <1>7, LenProperties
  <2>2. \A k \in 1 .. Len(symbols) : symbols[k] \in S
    BY <2>1
  <2>3. symbols \in [1 .. Len(symbols) -> ToSet(symbols)]
    BY <2>1 DEF ToSet
  <2> QED
    BY <2>1, <2>2, <2>3, SeqDef DEF ToSet
<1> QED
  BY <1>8 DEF symbols, S, symtab, IsList

\* What the search of the symbol table comes to.
LEMMA SymbolTableIs ==
    ASSUME process \in Processes, NEW j \in Images, NEW pc \in Nat
    PROVE  LET i == process.images[j]
               x == find_symbol_by_pc(i, pc)
               before == {e \in Entries(i) : e.value + i.slide <= pc}
           IN IF before = {} THEN x = NoSymbol
              ELSE \E e \in before :
                      /\ \A d \in before : d.value + i.slide <= e.value + i.slide
                      /\ x = [address |-> normalized_value(e) + i.slide, name |-> e.name]
<1> DEFINE i == process.images[j]
           x == find_symbol_by_pc(i, pc)
           before == {e \in Entries(i) : e.value + i.slide <= pc}
           slide == i.slide
           slide_pc == pc - i.slide
           globals == SymbolsIn(i, i.global)
           locals == SymbolsIn(i, i.local)
           global == find_best_symbol(globals, slide_pc, NoEntry)
           found == find_best_symbol(locals, slide_pc, global)
           A == ToSet(globals) \cup ToSet(locals)
<1>1. i.slide \in Int /\ slide_pc \in Int
  BY CodeAssumption
<1>2. CASE ~ IsReadable(i)
  BY <1>2 DEF find_symbol_by_pc, Entries
<1>3. CASE IsReadable(i)
  <2>1. IsList(globals) /\ IsList(locals) /\ A \subseteq ToSet(i.symtab)
    BY <1>3, RangeIs
  <2>2. \A e \in A : e.value \in Nat
    <3>1. \A e \in ToSet(i.symtab) : e.value \in Nat
      BY CodeAssumption
    <3> HIDE DEF A
    <3> QED
      BY <2>1, <3>1
  <2>3. IsBest(NoEntry, {}, slide_pc)
    BY DEF IsBest
  <2>4. Entries(i) = {e \in A : e.kind = "section"}
    BY <1>3 DEF Entries
  <2>5. x = IF found = NoEntry THEN NoSymbol
            ELSE [address |-> normalized_value(found) + i.slide, name |-> found.name]
    BY <1>3 DEF find_symbol_by_pc
  <2> DEFINE G == ToSet(globals)
             O == ToSet(locals)
  <2>6. A = G \cup O
    OBVIOUS
  <2>7. global = find_best_symbol(globals, slide_pc, NoEntry) /\ found = find_best_symbol(locals, slide_pc, global)
    OBVIOUS
  <2>8. before = {e \in Entries(i) : e.value + slide <= pc} /\ slide_pc = pc - slide /\ slide \in Int
    BY <1>1
  <2> HIDE DEF global, found, A, x, slide_pc, globals, locals, before, slide
  <2>9. IsBest(global, {} \cup G, slide_pc)
    BY <1>1, <2>1, <2>2, <2>3, <2>6, <2>7, SearchIsBest
  <2>10. IsBest(global, G, slide_pc)
    <3>1. {} \cup G = G
      OBVIOUS
    <3> QED
      BY <2>9, <3>1
  <2>11. IsBest(found, G \cup O, slide_pc)
    BY <1>1, <2>1, <2>2, <2>6, <2>7, <2>10, SearchIsBest
  <2>12. IsBest(found, A, slide_pc)
    BY <2>6, <2>11
  <2>13. before = {e \in A : IsBefore(e, slide_pc)}
    <3>1. \A e \in A : e.value <= slide_pc <=> e.value + slide <= pc
      BY <2>2, <2>8
    <3> QED
      BY <2>4, <2>8, <3>1 DEF IsBefore
  <2>14. CASE before = {}
    <3>1. found = NoEntry
      BY <2>12, <2>13, <2>14 DEF IsBest
    <3> QED
      BY <2>5, <2>14, <3>1 DEF x, before, slide
  <2>15. CASE before # {}
    <3>1. found \in before /\ \A d \in before : d.value <= found.value
      BY <2>12, <2>13, <2>15 DEF IsBest
    <3>2. found # NoEntry
      BY <2>13, <3>1 DEF IsBefore, NoEntry
    <3>3. \A d \in before : d.value + slide <= found.value + slide
      <4>1. \A d \in before : d.value \in Nat
        BY <2>2, <2>13
      <4> QED
        BY <2>8, <3>1, <4>1
    <3> QED
      BY <2>5, <2>15, <3>1, <3>2, <3>3 DEF x, before, slide
  <2> QED
    BY <2>14, <2>15
<1> QED
  BY <1>2, <1>3

----------------------------------------------------------------------------
(* Lists, and lists of lists.                                              *)

LEMMA ListIs ==
    ASSUME NEW S, NEW s \in Seq(S)
    PROVE  /\ IsList(s) /\ ToSet(s) \subseteq S
           /\ Len(s) \in Nat /\ DOMAIN s = 1 .. Len(s) /\ ToSet(s) = {s[k] : k \in 1 .. Len(s)}
<1>1. Len(s) \in Nat /\ DOMAIN s = 1 .. Len(s) /\ s \in [1 .. Len(s) -> S]
  BY LenProperties
<1>2. s \in [1 .. Len(s) -> ToSet(s)]
  BY <1>1 DEF ToSet
<1>3. s \in Seq(ToSet(s))
  BY <1>1, <1>2, SeqDef
<1> QED
  BY <1>1, <1>3 DEF ToSet, IsList

LEMMA ConcatIs ==
    ASSUME NEW s, NEW t, IsList(s), IsList(t)
    PROVE  IsList(s \o t) /\ ToSet(s \o t) = ToSet(s) \cup ToSet(t)
<1> DEFINE S == ToSet(s) \cup ToSet(t)
<1>1. s \in Seq(S) /\ t \in Seq(S)
  <2>1. s \in Seq(ToSet(s)) /\ ToSet(s) \subseteq S /\ t \in Seq(ToSet(t)) /\ ToSet(t) \subseteq S
    BY DEF IsList
  <2> HIDE DEF S
  <2> QED
    BY <2>1, SeqMonotonic
<1> HIDE DEF S
<1>2. /\ s \o t \in Seq(S) /\ Len(s \o t) = Len(s) + Len(t)
      /\ \A k \in 1 .. Len(s) + Len(t) : (s \o t)[k] = IF k <= Len(s) THEN s[k] ELSE t[k - Len(s)]
  BY <1>1, ConcatProperties
<1>3. /\ Len(s) \in Nat /\ ToSet(s) = {s[k] : k \in 1 .. Len(s)}
      /\ Len(t) \in Nat /\ ToSet(t) = {t[k] : k \in 1 .. Len(t)}
      /\ ToSet(s \o t) = {(s \o t)[k] : k \in 1 .. Len(s \o t)}
      /\ IsList(s \o t) /\ ToSet(s \o t) \subseteq S
  BY <1>1, <1>2, ListIs
<1>4. ToSet(s) \subseteq ToSet(s \o t)
  <2>1. ASSUME NEW k \in 1 .. Len(s) PROVE s[k] \in ToSet(s \o t)
    <3>1. k \in 1 .. Len(s \o t) /\ (s \o t)[k] = s[k]
      BY <1>2, <1>3
    <3> QED
      BY <1>3, <3>1
  <2> QED
    BY <1>3, <2>1
<1>5. ToSet(t) \subseteq ToSet(s \o t)
  <2>1. ASSUME NEW k \in 1 .. Len(t) PROVE t[k] \in ToSet(s \o t)
    <3>1. Len(s) + k \in 1 .. Len(s \o t) /\ (s \o t)[Len(s) + k] = t[k]
      BY <1>2, <1>3
    <3> QED
      BY <1>3, <3>1
  <2> QED
    BY <1>3, <2>1
<1> QED
  BY <1>3, <1>4, <1>5 DEF S

IsFlat(g, seqs, n) == g = [k \in 1 .. n |-> IF k = 1 THEN seqs[k] ELSE g[k - 1] \o seqs[k]]

LEMMA FlatExists ==
    ASSUME NEW seqs, NEW n \in Nat
    PROVE  \E g : IsFlat(g, seqs, n)
<1> DEFINE T == {k \in Nat : ~ \E g : IsFlat(g, seqs, k)}
<1>1. SUFFICES ASSUME T # {} PROVE FALSE
  OBVIOUS
<1>2. PICK k \in T : \A j \in T : k <= j
  <2>1. T \in SUBSET Nat
    OBVIOUS
  <2> HIDE DEF T
  <2> QED
    BY <1>1, <2>1, LeastNumber
<1>3. k # 0
  <2>1. ASSUME k = 0 PROVE FALSE
    <3> DEFINE g == [i \in 1 .. 0 |-> {}]
    <3>1. IsFlat(g, seqs, 0)
      BY DEF IsFlat
    <3> QED
      BY <1>2, <2>1, <3>1
  <2> QED
    BY <2>1
<1>4. PICK j \in Nat : k = j + 1
  <2>1. k - 1 \in Nat /\ k = (k - 1) + 1
    BY <1>2, <1>3
  <2> QED
    BY <2>1
<1>5. PICK g : IsFlat(g, seqs, j)
  BY <1>2, <1>4
<1> DEFINE h == [i \in 1 .. j + 1 |->
                    IF i = j + 1 THEN IF i = 1 THEN seqs[i] ELSE g[i - 1] \o seqs[i] ELSE g[i]]
<1>6. ASSUME NEW i \in 1 .. j + 1
      PROVE  h[i] = IF i = 1 THEN seqs[i] ELSE h[i - 1] \o seqs[i]
  <2>1. CASE i = j + 1
    <3>1. i # 1 => h[i - 1] = g[i - 1]
      BY <2>1
    <3>2. h[i] = IF i = 1 THEN seqs[i] ELSE g[i - 1] \o seqs[i]
      BY <2>1
    <3> HIDE DEF h
    <3> QED
      BY <3>1, <3>2
  <2>2. CASE i # j + 1
    <3>1. h[i] = g[i] /\ (i # 1 => h[i - 1] = g[i - 1]) /\ i \in 1 .. j
      BY <2>2
    <3> HIDE DEF h
    <3>2. g[i] = IF i = 1 THEN seqs[i] ELSE g[i - 1] \o seqs[i]
      BY <1>5, <3>1 DEF IsFlat
    <3> QED
      BY <3>1, <3>2
  <2> QED
    BY <2>1, <2>2
<1>7. h = [i \in 1 .. j + 1 |-> h[i]]
  OBVIOUS
<1> HIDE DEF h
<1>8. IsFlat(h, seqs, j + 1)
  BY <1>6, <1>7 DEF IsFlat
<1> QED
  BY <1>2, <1>4, <1>8

LEMMA FlattenIs ==
    ASSUME NEW seqs, IsList(seqs), \A k \in 1 .. Len(seqs) : IsList(seqs[k])
    PROVE  /\ IsList(FlattenSeq(seqs))
           /\ ToSet(FlattenSeq(seqs)) = UNION {ToSet(seqs[k]) : k \in 1 .. Len(seqs)}
<1> DEFINE n == Len(seqs)
           U(k) == UNION {ToSet(seqs[i]) : i \in 1 .. k}
<1>1. n \in Nat /\ DOMAIN seqs = 1 .. n
  BY ListIs DEF IsList
<1>2. CASE n = 0
  BY <1>1, <1>2 DEF FlattenSeq, ToSet
<1>3. CASE n # 0
  <2> DEFINE flat == CHOOSE g : IsFlat(g, seqs, n)
  <2>1. IsFlat(flat, seqs, n)
    BY <1>1, FlatExists
  <2>2. FlattenSeq(seqs) = flat[n]
    BY <1>3 DEF FlattenSeq, IsFlat
  <2> HIDE DEF flat
  <2> DEFINE T == {k \in 1 .. n : ~ (IsList(flat[k]) /\ ToSet(flat[k]) = U(k))}
  <2>3. T = {}
    <3> SUFFICES ASSUME T # {} PROVE FALSE
      OBVIOUS
    <3>1. PICK k \in T : \A j \in T : k <= j
      <4>1. T \in SUBSET Nat
        BY <1>1
      <4> HIDE DEF T
      <4> QED
        BY <4>1, LeastNumber
    <3>2. k \in 1 .. n
      OBVIOUS
    <3>3. IsList(seqs[k])
      BY <3>2
    <3>4. k # 1
      <4>1. ASSUME k = 1 PROVE FALSE
        <5>1. flat[1] = seqs[1]
          BY <1>1, <2>1, <3>2, <4>1 DEF IsFlat
        <5>2. U(1) = ToSet(seqs[1])
          OBVIOUS
        <5> QED
          BY <3>1, <3>3, <4>1, <5>1, <5>2
      <4> QED
        BY <4>1
    <3>5. PICK j : j = k - 1
      OBVIOUS
    <3>6. j \in 1 .. n /\ k = j + 1 /\ ~ (k <= j)
      BY <1>1, <3>2, <3>4, <3>5
    <3>7. j \notin T
      <4>1. \A i \in T : k <= i
        BY <3>1
      <4> HIDE DEF T
      <4> QED
        BY <3>6, <4>1
    <3>8. IsList(flat[j]) /\ ToSet(flat[j]) = U(j)
      BY <3>6, <3>7
    <3>9. flat[k] = flat[j] \o seqs[k]
      BY <1>1, <2>1, <3>2, <3>4, <3>5 DEF IsFlat
    <3>10. IsList(flat[k]) /\ ToSet(flat[k]) = ToSet(flat[j]) \cup ToSet(seqs[k])
      BY <3>3, <3>8, <3>9, ConcatIs
    <3>11. U(k) = U(j) \cup ToSet(seqs[k])
      BY <3>6
    <3>12. ToSet(flat[k]) = U(k)
      BY <3>8, <3>10, <3>11
    <3> QED
      BY <3>1, <3>10, <3>12
  <2>4. n \in 1 .. n
    BY <1>1, <1>3
  <2>5. n \notin T
    <3> HIDE DEF T
    <3> QED
      BY <2>3
  <2> QED
    BY <2>2, <2>4, <2>5
<1> QED
  BY <1>2, <1>3

----------------------------------------------------------------------------
(* The search of the methods: what the callbacks of a parse have found of  *)
(* the methods that were visited.                                          *)

\* A method's IMP is the greatest of some methods' up to the pc; 0 if none is.
IsGreatest(best, M, pc) ==
    \/ best = 0 /\ \A m \in M : ~ (m.imp <= pc)
    \/ /\ \E m \in M : m.imp = best
       /\ best <= pc /\ \A m \in M : m.imp <= pc => m.imp <= best

\* The answer after the callback of a method.
Better(answered, m) ==
    IF answered.symbol # NoSymbol /\ m.imp < answered.symbol.address THEN answered
    ELSE [answered EXCEPT !.symbol = [address |-> m.imp, name |-> m.name]]

\* What a lookup has found when it has visited some of its methods, V of A; of the symbol
\* table it had got the answer known.
IsSound(found, V, A, pc, known) ==
    /\ found.search = [parse |-> found.search.parse, best |-> found.search.best, called |-> found.search.called]
    /\ \/ /\ found.search.parse = "search" /\ found.search.called = FALSE
          /\ found.answer = known
          /\ IsGreatest(found.search.best, V, pc)
       \/ /\ found.search.parse = "call" /\ found.search.best # 0
          /\ IsGreatest(found.search.best, A, pc)
          /\ \/ /\ found.search.called = FALSE /\ found.answer = known
                /\ \A m \in V : m.imp # found.search.best
             \/ /\ found.search.called = TRUE
                /\ \E m \in A : m.imp = found.search.best /\ found.answer = Better(known, m)

LEMMA SearchCalled ==
    ASSUME NEW methods, NEW V, NEW pc \in Nat, NEW best,
           \A m \in V \cup ToSet(methods) : m.imp \in Nat \ {0}, IsGreatest(best, V, pc)
    PROVE  IsGreatest(Max({best} \cup {x \in {m.imp : m \in ToSet(methods)} : x <= pc}),
                      V \cup ToSet(methods), pc)
<1> DEFINE M == ToSet(methods)
           upTo == {x \in {m.imp : m \in M} : x <= pc}
           all == {best} \cup upTo
           top == Max(all)
<1>1. best \in 0 .. pc
  BY DEF IsGreatest
<1>2. upTo \subseteq 1 .. pc
  OBVIOUS
<1>3. all \in SUBSET (0 .. pc) /\ all # {}
  BY <1>1, <1>2
<1>4. top \in all /\ \A y \in all : top >= y
  <2> HIDE DEF all
  <2> QED
    BY <1>3, GreatestExists
<1>5. \A m \in M : m.imp <= pc => m.imp \in all
  OBVIOUS
<1>6. top \in Nat /\ best \in Nat /\ top <= pc /\ best <= top
  BY <1>1, <1>3, <1>4
<1>7. \A m \in M : m.imp <= pc => m.imp <= top
  BY <1>3, <1>4, <1>5
<1>8. \A m \in V : m.imp <= pc => m.imp <= top
  BY <1>6 DEF IsGreatest
<1>9. top = best \/ \E m \in M : m.imp = top
  BY <1>4
<1> HIDE DEF top, M
<1>10. CASE top = 0
  BY <1>6, <1>7, <1>8, <1>10 DEF IsGreatest, top, M
<1>11. CASE top # 0
  <2>1. \E m \in V \cup M : m.imp = top
    BY <1>9, <1>11 DEF IsGreatest
  <2> QED
    BY <1>6, <1>7, <1>8, <2>1 DEF IsGreatest, top, M
<1> QED
  BY <1>10, <1>11

\* The first of some methods that has an IMP.
LEMMA FirstIs ==
    ASSUME NEW methods, IsList(methods), NEW imp
    PROVE  LET first == FirstWith(methods, imp)
           IN IF \E m \in ToSet(methods) : m.imp = imp
              THEN first # 0 /\ methods[first] \in ToSet(methods) /\ methods[first].imp = imp
              ELSE first = 0
<1> DEFINE n == Len(methods)
           I == {k \in 1 .. n : methods[k].imp = imp}
           first == FirstWith(methods, imp)
<1>1. n \in Nat /\ DOMAIN methods = 1 .. n /\ ToSet(methods) = {methods[k] : k \in 1 .. n}
  BY ListIs DEF IsList
<1>2. first = IF I # {} THEN Min(I) ELSE 0
  BY DEF FirstWith, SelectInSeq
<1>3. I # {} => Min(I) \in I
  <2>1. I \in SUBSET Nat
    BY <1>1
  <2> HIDE DEF I
  <2> QED
    BY <2>1, LeastNumber DEF Min
<1>4. CASE I # {}
  <2>1. first \in I
    BY <1>2, <1>3, <1>4
  <2> HIDE DEF first
  <2>2. first \in 1 .. n /\ methods[first].imp = imp
    BY <2>1
  <2>3. first # 0 /\ methods[first] \in ToSet(methods)
    BY <1>1, <2>2
  <2> QED
    BY <2>2, <2>3 DEF first
<1>5. CASE I = {}
  BY <1>1, <1>2, <1>5
<1> QED
  BY <1>4, <1>5

LEMMA CalledIsSound ==
    ASSUME NEW methods, NEW V, NEW A, NEW pc \in Nat, NEW known, NEW found,
           IsList(methods), ToSet(methods) \subseteq A, V \subseteq A,
           \A m \in A : m.imp \in Nat \ {0}, IsSound(found, V, A, pc, known)
    PROVE  IsSound(Called(methods, pc, found), V \cup ToSet(methods), A, pc, known)
<1> DEFINE M == ToSet(methods)
           best == found.search.best
           called == Called(methods, pc, found)
<1>1. found.search = [parse |-> found.search.parse, best |-> found.search.best, called |-> found.search.called]
  BY DEF IsSound
<1>2. CASE found.search.parse = "search"
  <2> DEFINE top == Max({best} \cup {x \in {m.imp : m \in M} : x <= pc})
  <2>1. found.search.called = FALSE /\ found.answer = known /\ IsGreatest(best, V, pc)
    BY <1>2 DEF IsSound
  <2>2. called.search = [found.search EXCEPT !.best = top] /\ called.answer = found.answer
    BY <1>2 DEF Called
  <2>3. IsGreatest(top, V \cup M, pc)
    BY <2>1, SearchCalled
  <2> HIDE DEF top, called
  <2>4. called.search = [parse |-> "search", best |-> top, called |-> FALSE]
    BY <1>1, <1>2, <2>1, <2>2
  <2>5. IsSound(called, V \cup M, A, pc, known)
    BY <2>1, <2>2, <2>3, <2>4 DEF IsSound
  <2> QED
    BY <2>5 DEF called
<1>3. CASE found.search.parse # "search"
  <2> DEFINE first == FirstWith(methods, best)
             m0 == methods[first]
  <2>1. /\ found.search.parse = "call" /\ best # 0 /\ IsGreatest(best, A, pc)
        /\ \/ /\ found.search.called = FALSE /\ found.answer = known
              /\ \A m \in V : m.imp # best
           \/ /\ found.search.called = TRUE
              /\ \E m \in A : m.imp = best /\ found.answer = Better(known, m)
    BY <1>3 DEF IsSound
  <2>2. /\ called.search = [found.search EXCEPT !.called = found.search.called \/ first # 0]
        /\ called.answer = IF first = 0 \/ found.search.called THEN found.answer ELSE Better(found.answer, m0)
    BY <1>3 DEF Called, Better
  <2>3. IF \E m \in M : m.imp = best THEN first # 0 /\ m0 \in M /\ m0.imp = best ELSE first = 0
    BY FirstIs
  <2> HIDE DEF first, m0, called
  <2>4. called.search = [parse |-> "call", best |-> best, called |-> found.search.called \/ first # 0]
    BY <1>1, <2>1, <2>2
  <2>5. CASE found.search.called = TRUE
    <3>1. called.search.called = TRUE /\ called.answer = found.answer /\ called.search.best = best
      BY <2>2, <2>4, <2>5
    <3>2. \E m \in A : m.imp = best /\ found.answer = Better(known, m)
      BY <2>1, <2>5
    <3> QED
      BY <2>1, <2>4, <3>1, <3>2 DEF IsSound, called
  <2>6. CASE found.search.called = FALSE /\ first = 0
    <3>1. called.search = [parse |-> "call", best |-> best, called |-> FALSE] /\ called.answer = known
      BY <2>1, <2>2, <2>4, <2>6
    <3>2. \A m \in V \cup M : m.imp # best
      BY <2>1, <2>3, <2>6
    <3> QED
      BY <2>1, <3>1, <3>2 DEF IsSound, called
  <2>7. CASE found.search.called = FALSE /\ first # 0
    <3>1. called.search = [parse |-> "call", best |-> best, called |-> TRUE] /\ called.answer = Better(known, m0)
      BY <2>1, <2>2, <2>4, <2>7
    <3>2. m0 \in A /\ m0.imp = best
      BY <2>3, <2>7
    <3> QED
      BY <2>1, <3>1, <3>2 DEF IsSound, called
  <2> QED
    BY <2>1, <2>5, <2>6, <2>7
<1> QED
  BY <1>2, <1>3

\* The methods with some IMPs.
MethodsOf(imps, owner, meta) == {[imp |-> x, name |-> <<"method", owner, meta>>] : x \in ToSet(imps)}

LEMMA MethodsIs ==
    ASSUME NEW imps, HasCode(imps), NEW owner, NEW meta
    PROVE  /\ IsList(Methods(imps, owner, meta))
           /\ ToSet(Methods(imps, owner, meta)) = MethodsOf(imps, owner, meta)
           /\ \A m \in MethodsOf(imps, owner, meta) : m.imp \in Nat \ {0}
<1> DEFINE n == Len(imps)
           S == MethodsOf(imps, owner, meta)
           methods == Methods(imps, owner, meta)
           name == <<"method", owner, meta>>
<1>1. n \in Nat /\ DOMAIN imps = 1 .. n /\ ToSet(imps) \subseteq Nat \ {0} /\ ToSet(imps) = {imps[k] : k \in 1 .. n}
  BY ListIs DEF HasCode
<1>2. methods = [k \in 1 .. n |-> [imp |-> imps[k], name |-> name]]
  BY <1>1 DEF Methods
<1>3. S = {[imp |-> x, name |-> name] : x \in ToSet(imps)}
  BY DEF MethodsOf
<1> HIDE DEF n, S, methods, name
<1>4. methods \in [1 .. n -> S] /\ ToSet(methods) = S
  BY <1>1, <1>2, <1>3 DEF ToSet
<1>5. methods \in Seq(S)
  BY <1>1, <1>4, SeqDef
<1>6. IsList(methods)
  BY <1>4, <1>5 DEF IsList
<1>7. \A m \in S : m.imp \in Nat \ {0}
  BY <1>1, <1>3
<1> QED
  BY <1>4, <1>6, <1>7 DEF S, methods

\* A list of something for each item of a list.
LEMMA MappedList ==
    ASSUME NEW s, NEW lists, IsList(lists), DOMAIN s = 1 .. Len(lists), s = [k \in DOMAIN s |-> s[k]]
    PROVE  IsList(s) /\ Len(s) = Len(lists)
<1>1. Len(lists) \in Nat
  BY ListIs DEF IsList
<1>2. s \in [1 .. Len(lists) -> ToSet(s)]
  BY DEF ToSet
<1>3. s \in Seq(ToSet(s))
  BY <1>1, <1>2, SeqDef
<1>4. Len(s) = Len(lists)
  <2>1. Len(s) \in Nat /\ 1 .. Len(s) = 1 .. Len(lists)
    BY <1>3, LenProperties
  <2> QED
    BY <1>1, <2>1
<1> QED
  BY <1>3, <1>4 DEF IsList

ListsHold(lists, owner) == UNION {MethodsOf(lists[k].imps, owner, lists[k].meta) : k \in 1 .. Len(lists)}

\* A parse of lists that are all in the image.
LEMMA ListsParsed ==
    ASSUME NEW rw, NEW lists, NEW found, NEW V, NEW A, NEW pc \in Nat, pc = frame.pc, NEW known,
           IsList(lists), \A k \in 1 .. Len(lists) : HasCode(lists[k].imps),
           IsParsed(rw), Realized(rw) => \A k \in 1 .. Len(lists) : IsItsOwn(lists[k]),
           Realized(rw) => ListsHold(lists, DataOf(process, rw).name) \subseteq A,
           V \subseteq A, \A m \in A : m.imp \in Nat \ {0}, IsSound(found, V, A, pc, known)
    PROVE  LET r == Parsed(process, frame, rw, lists, found)
           IN /\ r.err = IF Realized(rw) THEN "ESUCCESS" ELSE "ENOTFOUND"
              /\ IsSound(r, V \cup (IF Realized(rw) THEN ListsHold(lists, DataOf(process, rw).name) ELSE {}),
                         A, pc, known)
<1> DEFINE r == Parsed(process, frame, rw, lists, found)
           owner == DataOf(process, rw).name
<1>1. CASE ~ Realized(rw)
  <2>1. ErrorOf(process, rw) = "ENOTFOUND"
    BY <1>1 DEF IsParsed, Realized, ErrorOf
  <2>2. r.err = "ENOTFOUND" /\ r.search = found.search /\ r.answer = found.answer
    BY <2>1 DEF Parsed
  <2> HIDE DEF r
  <2>3. IsSound(r, V, A, pc, known)
    BY <2>2 DEF IsSound
  <2>4. V \cup {} = V
    OBVIOUS
  <2> QED
    BY <1>1, <2>2, <2>3, <2>4 DEF r
<1>2. CASE Realized(rw)
  <2>1. ErrorOf(process, rw) = "ESUCCESS"
    BY <1>2 DEF Realized, ErrorOf
  <2> DEFINE unmapped == {k \in DOMAIN lists : ~ (lists[k].imps = << >> \/ frame.image = lists[k].home)}
             parsed == IF unmapped = {} THEN lists ELSE SubSeq(lists, 1, Min(unmapped) - 1)
             s == [k \in DOMAIN lists |-> Methods(lists[k].imps, owner, lists[k].meta)]
             methods == FlattenSeq(s)
  <2>2. DOMAIN lists = 1 .. Len(lists)
    BY ListIs DEF IsList
  <2>3. unmapped = {}
    BY <1>2, <2>2 DEF IsItsOwn
  <2>4. parsed = lists
    BY <2>3
  <2>5. /\ r.err = "ESUCCESS"
        /\ r.search = Called(methods, frame.pc, found).search
        /\ r.answer = Called(methods, frame.pc, found).answer
    BY <2>1, <2>3, <2>4 DEF Parsed
  <2>6. IsList(s) /\ Len(s) = Len(lists)
    BY <2>2, MappedList
  <2>7. \A k \in 1 .. Len(lists) :
            IsList(s[k]) /\ ToSet(s[k]) = MethodsOf(lists[k].imps, owner, lists[k].meta)
    BY <2>2, MethodsIs
  <2> HIDE DEF s
  <2>8. IsList(methods) /\ ToSet(methods) = UNION {ToSet(s[k]) : k \in 1 .. Len(lists)}
    BY <2>6, <2>7, FlattenIs
  <2>9. ToSet(methods) = ListsHold(lists, owner)
    BY <2>7, <2>8 DEF ListsHold
  <2> HIDE DEF methods, owner
  <2>10. IsSound(Called(methods, pc, found), V \cup ToSet(methods), A, pc, known)
    BY <1>2, <2>8, <2>9, CalledIsSound DEF owner
  <2> DEFINE called == Called(methods, pc, found)
  <2>11. r.search = called.search /\ r.answer = called.answer
    BY <2>5
  <2>12. IsSound(called, V \cup ToSet(methods), A, pc, known)
    BY <2>10
  <2> HIDE DEF r, called
  <2>13. IsSound(r, V \cup ToSet(methods), A, pc, known)
    BY <2>11, <2>12 DEF IsSound
  <2> QED
    BY <1>2, <2>5, <2>9, <2>13 DEF r, owner
<1> QED
  BY <1>1, <1>2

\* A parse of a class, or of a metaclass.
LEMMA OwnParsed ==
    ASSUME process \in Processes, NEW rw, NEW meta, NEW found, NEW V, NEW A, NEW pc \in Nat, pc = frame.pc, NEW known,
           IsParsed(rw), Realized(rw) => IsItsOwn(ListOf(rw)), Own(rw, meta) \subseteq A,
           V \subseteq A, \A m \in A : m.imp \in Nat \ {0}, IsSound(found, V, A, pc, known)
    PROVE  LET r == ParsedMethods(process, frame, rw, meta, found)
           IN /\ r.err = IF Realized(rw) THEN "ESUCCESS" ELSE "ENOTFOUND"
              /\ IsSound(r, V \cup Own(rw, meta), A, pc, known)
<1> DEFINE base == DataOf(process, rw).list
           lists == <<[home |-> base.home, imps |-> base.imps, meta |-> meta]>>
           owner == DataOf(process, rw).name
           r == ParsedMethods(process, frame, rw, meta, found)
<1>1. r = Parsed(process, frame, rw, lists, found)
  BY DEF ParsedMethods
<1>2. IsList(lists) /\ Len(lists) = 1 /\ lists[1].imps = base.imps /\ lists[1].home = base.home /\ lists[1].meta = meta
  BY DEF IsList, ToSet
<1>3. Realized(rw) => HasCode(base.imps) /\ IsItsOwn(base)
  BY CodeAssumption DEF Realized, DataOf, ListOf
<1>4. Realized(rw) => ListsHold(lists, owner) = Own(rw, meta)
  <2> SUFFICES ASSUME Realized(rw) PROVE ListsHold(lists, owner) = Own(rw, meta)
    OBVIOUS
  <2>1. Own(rw, meta) = MethodsOf(base.imps, owner, meta)
    BY DEF Own, MethodsOf, DataOf
  <2> HIDE DEF lists, base, owner
  <2>2. ListsHold(lists, owner) = MethodsOf(lists[1].imps, owner, lists[1].meta)
    BY <1>2 DEF ListsHold
  <2> QED
    BY <1>2, <2>1, <2>2
<1>5. ~ Realized(rw) => Own(rw, meta) = {}
  BY DEF Own
<1>6. Realized(rw) => IsItsOwn(lists[1])
  BY <1>2, <1>3 DEF IsItsOwn
<1> HIDE DEF lists, base, r
<1>7. CASE Realized(rw)
  <2>1. \A k \in 1 .. Len(lists) : HasCode(lists[k].imps) /\ IsItsOwn(lists[k])
    BY <1>2, <1>3, <1>6, <1>7
  <2>2. ListsHold(lists, DataOf(process, rw).name) \subseteq A
    BY <1>4, <1>7
  <2>3. /\ r.err = IF Realized(rw) THEN "ESUCCESS" ELSE "ENOTFOUND"
        /\ IsSound(r, V \cup (IF Realized(rw) THEN ListsHold(lists, DataOf(process, rw).name) ELSE {}),
                   A, pc, known)
    BY <1>1, <1>2, <2>1, <2>2, ListsParsed
  <2> QED
    BY <1>4, <1>7, <2>3 DEF r
<1>8. CASE ~ Realized(rw)
  <2>1. ErrorOf(process, rw) = "ENOTFOUND"
    BY <1>8 DEF IsParsed, Realized, ErrorOf
  <2>2. r.err = "ENOTFOUND" /\ r.search = found.search /\ r.answer = found.answer
    BY <1>1, <2>1 DEF Parsed
  <2>3. IsSound(r, V, A, pc, known)
    BY <2>2 DEF IsSound
  <2>4. V \cup Own(rw, meta) = V
    BY <1>5, <1>8
  <2> QED
    BY <1>8, <2>2, <2>3, <2>4 DEF r
<1> QED
  BY <1>7, <1>8

Assumed ==
    /\ process \in Processes /\ frame.image \in Images /\ frame.pc \in Nat
    /\ IsSearchable /\ "objc" \in strategy

ClassMethods(k) == Own(image.classlist[k].class, FALSE) \cup Own(image.classlist[k].metaclass, TRUE)
ClassesUpTo(n) == UNION {ClassMethods(k) : k \in 1 .. n}
CategoriesUpTo(n) == UNION {OfCategory(image.catlist[k]) : k \in 1 .. n}

LEMMA ListHas ==
    ASSUME NEW s, IsList(s)
    PROVE  Len(s) \in Nat /\ DOMAIN s = 1 .. Len(s) /\ ToSet(s) = {s[k] : k \in 1 .. Len(s)}
BY ListIs DEF IsList

\* The methods of the modules.
LEMMA ModulesAre ==
    ASSUME Assumed
    PROVE  /\ IsList(ModuleMethods(image))
           /\ ToSet(ModuleMethods(image)) =
                 UNION {ToSet(Methods(image.modules[k].imps, k, FALSE) \o Methods(image.modules[k].meta, k, TRUE)) :
                           k \in DOMAIN image.modules}
           /\ \A m \in ToSet(ModuleMethods(image)) : m.imp \in Nat \ {0}
<1> DEFINE modules == image.modules
           s == [k \in DOMAIN modules |-> Methods(modules[k].imps, k, FALSE) \o Methods(modules[k].meta, k, TRUE)]
<1>1. /\ IsList(modules) /\ DOMAIN modules = 1 .. Len(modules)
      /\ \A k \in 1 .. Len(modules) : HasCode(modules[k].imps) /\ HasCode(modules[k].meta)
  <2>1. IsList(modules) /\ \A o \in ToSet(modules) : HasCode(o.imps) /\ HasCode(o.meta)
    BY CodeAssumption DEF Assumed, image
  <2> HIDE DEF modules
  <2>2. DOMAIN modules = 1 .. Len(modules) /\ ToSet(modules) = {modules[k] : k \in 1 .. Len(modules)}
    BY <2>1, ListHas
  <2> QED
    BY <2>1, <2>2
<1>2. IsList(s) /\ Len(s) = Len(modules)
  BY <1>1, MappedList
<1>3. ASSUME NEW k \in 1 .. Len(modules)
      PROVE  IsList(s[k]) /\ \A m \in ToSet(s[k]) : m.imp \in Nat \ {0}
  <2> DEFINE own == Methods(modules[k].imps, k, FALSE)
             meta == Methods(modules[k].meta, k, TRUE)
  <2>1. HasCode(modules[k].imps) /\ HasCode(modules[k].meta)
    BY <1>1
  <2>2. IsList(own) /\ \A m \in ToSet(own) : m.imp \in Nat \ {0}
    <3>1. /\ IsList(own) /\ ToSet(own) = MethodsOf(modules[k].imps, k, FALSE)
          /\ \A m \in MethodsOf(modules[k].imps, k, FALSE) : m.imp \in Nat \ {0}
      BY <2>1, MethodsIs
    <3> HIDE DEF own
    <3> QED
      BY <3>1
  <2>3. IsList(meta) /\ \A m \in ToSet(meta) : m.imp \in Nat \ {0}
    <3>1. /\ IsList(meta) /\ ToSet(meta) = MethodsOf(modules[k].meta, k, TRUE)
          /\ \A m \in MethodsOf(modules[k].meta, k, TRUE) : m.imp \in Nat \ {0}
      BY <2>1, MethodsIs
    <3> HIDE DEF meta
    <3> QED
      BY <3>1
  <2>4. s[k] = own \o meta
    BY <1>1
  <2> HIDE DEF own, meta, s
  <2>5. IsList(own \o meta) /\ ToSet(own \o meta) = ToSet(own) \cup ToSet(meta)
    BY <2>2, <2>3, ConcatIs
  <2> QED
    BY <2>2, <2>3, <2>4, <2>5
<1>4. ModuleMethods(image) = FlattenSeq(s)
  BY DEF ModuleMethods
<1>5. \A k \in 1 .. Len(modules) : s[k] = Methods(modules[k].imps, k, FALSE) \o Methods(modules[k].meta, k, TRUE)
  BY <1>1
<1> DEFINE held == UNION {ToSet(Methods(modules[k].imps, k, FALSE) \o Methods(modules[k].meta, k, TRUE)) :
                             k \in DOMAIN modules}
<1>6. held = UNION {ToSet(s[k]) : k \in 1 .. Len(modules)}
  BY <1>1, <1>5
<1> HIDE DEF s, held
<1>7. IsList(FlattenSeq(s)) /\ ToSet(FlattenSeq(s)) = UNION {ToSet(s[k]) : k \in 1 .. Len(modules)}
  BY <1>2, <1>3, FlattenIs
<1>8. \A m \in ToSet(FlattenSeq(s)) : m.imp \in Nat \ {0}
  BY <1>3, <1>7
<1> QED
  BY <1>4, <1>6, <1>7, <1>8 DEF held

\* What is searchable, item by item.
LEMMA SearchableIs ==
    ASSUME Assumed
    PROVE  /\ Len(image.classlist) \in Nat /\ Len(image.catlist) \in Nat
           /\ \A k \in 1 .. Len(image.classlist) :
                 LET c == image.classlist[k]
                 IN /\ IsParsed(c.class) /\ (Realized(c.class) <=> Realized(c.metaclass))
                    /\ Realized(c.class) => IsItsOwn(ListOf(c.class)) /\ IsItsOwn(ListOf(c.metaclass))
           /\ \A k \in 1 .. Len(image.catlist) :
                 LET c == image.catlist[k]
                 IN /\ IsParsed(c.class) /\ IsList(c.lists)
                    /\ Realized(c.class) => \A n \in 1 .. Len(c.lists) : IsItsOwn(c.lists[n])
                    /\ \A n \in 1 .. Len(c.lists) : HasCode(c.lists[n].imps)
           /\ Len(image.catlist) # 0 => Realized(image.catlist[Len(image.catlist)].class)
           /\ Len(image.catlist) = 0 /\ Len(image.classlist) # 0 =>
                 Realized(image.classlist[Len(image.classlist)].class)
           /\ \/ HasSections(image) /\ image.modules = << >>
              \/ Len(image.classlist) = 0 /\ Len(image.catlist) = 0
           /\ HasSections(image) => image.modules = << >>
           /\ MethodsIn(image) = ClassesUpTo(Len(image.classlist)) \cup CategoriesUpTo(Len(image.catlist))
                                   \cup ToSet(ModuleMethods(image))
           /\ IsList(ModuleMethods(image))
           /\ image.modules = << >> => ToSet(ModuleMethods(image)) = {}
<1> DEFINE classlist == image.classlist
           catlist == image.catlist
<1>1. /\ Len(classlist) \in Nat /\ DOMAIN classlist = 1 .. Len(classlist)
      /\ ToSet(classlist) = {classlist[k] : k \in 1 .. Len(classlist)}
      /\ (Len(classlist) = 0 => classlist = << >>)
  <2> DEFINE Items == [class : Nat, metaclass : Nat]
             list == process.images[frame.image].classlist
  <2>1. list \in Seq(Items)
    BY ListAssumption DEF Assumed
  <2>2. classlist = list
    BY DEF image
  <2> HIDE DEF Items, list
  <2>3. Len(list) \in Nat /\ DOMAIN list = 1 .. Len(list) /\ ToSet(list) = {list[k] : k \in 1 .. Len(list)}
    BY <2>1, ListIs
  <2>4. Len(list) = 0 => list = << >>
    BY <2>1, EmptySeq
  <2> QED
    BY <2>2, <2>3, <2>4
<1>2. /\ Len(catlist) \in Nat /\ DOMAIN catlist = 1 .. Len(catlist)
      /\ ToSet(catlist) = {catlist[k] : k \in 1 .. Len(catlist)}
      /\ (Len(catlist) = 0 => catlist = << >>)
  <2>1. IsList(catlist)
    BY CodeAssumption DEF Assumed, image
  <2> HIDE DEF catlist
  <2>2. /\ Len(catlist) \in Nat /\ DOMAIN catlist = 1 .. Len(catlist)
        /\ ToSet(catlist) = {catlist[k] : k \in 1 .. Len(catlist)}
    BY <2>1, ListIs DEF IsList
  <2>3. Len(catlist) = 0 => catlist = << >>
    BY <2>1, EmptySeq DEF IsList
  <2> QED
    BY <2>2, <2>3 DEF catlist
<1>3. << >> = catlist => Len(catlist) = 0
  BY EmptySeq
<1>4. << >> = classlist => Len(classlist) = 0
  BY EmptySeq
<1>5. HasSections(image) => image.modules = << >>
  BY RuntimeAssumption DEF Assumed, image
<1>6. image.mapped = Len(Sections) => HasSections(image)
  <2> SUFFICES ASSUME image.mapped = Len(Sections), NEW s \in SectionNames PROVE Position(s) <= image.mapped
    BY DEF HasSections
  <2>1. \E k \in DOMAIN Sections : Sections[k] = s
    BY DEF SectionNames, ToSet
  <2>2. Position(s) \in DOMAIN Sections
    BY <2>1 DEF Position
  <2> QED
    BY <2>2 DEF Sections
<1>7. \/ classlist = << >> /\ catlist = << >>
      \/ /\ image.mapped = Len(Sections)
         /\ \A c \in ToSet(image.classlist) :
               /\ IsParsed(c.class) /\ (Realized(c.class) <=> Realized(c.metaclass))
               /\ Realized(c.class) => IsItsOwn(ListOf(c.class)) /\ IsItsOwn(ListOf(c.metaclass))
         /\ \A c \in ToSet(image.catlist) :
               IsParsed(c.class) /\ (Realized(c.class) => \A list \in ToSet(c.lists) : IsItsOwn(list))
         /\ IF image.catlist # << >> THEN Realized(Last(image.catlist).class)
            ELSE image.classlist # << >> => Realized(Last(image.classlist).class)
  BY DEF Assumed, IsSearchable
<1>8. ASSUME NEW k \in 1 .. Len(classlist)
      PROVE  /\ IsParsed(classlist[k].class) /\ (Realized(classlist[k].class) <=> Realized(classlist[k].metaclass))
             /\ Realized(classlist[k].class) =>
                   IsItsOwn(ListOf(classlist[k].class)) /\ IsItsOwn(ListOf(classlist[k].metaclass))
  <2>1. classlist # << >> /\ classlist[k] \in ToSet(classlist)
    BY <1>1, <1>4
  <2> QED
    BY <1>7, <2>1
<1>9. ASSUME NEW k \in 1 .. Len(catlist)
      PROVE  /\ IsParsed(catlist[k].class) /\ IsList(catlist[k].lists)
             /\ Realized(catlist[k].class) => \A n \in 1 .. Len(catlist[k].lists) : IsItsOwn(catlist[k].lists[n])
             /\ \A n \in 1 .. Len(catlist[k].lists) : HasCode(catlist[k].lists[n].imps)
  <2>1. catlist # << >> /\ catlist[k] \in ToSet(catlist)
    BY <1>2, <1>3
  <2>2. IsParsed(catlist[k].class) /\ (Realized(catlist[k].class) => \A list \in ToSet(catlist[k].lists) : IsItsOwn(list))
    BY <1>7, <2>1
  <2>3. IsList(catlist[k].lists) /\ \A list \in ToSet(catlist[k].lists) : HasCode(list.imps)
    BY <2>1, CodeAssumption DEF Assumed, image
  <2>4. ToSet(catlist[k].lists) = {catlist[k].lists[n] : n \in 1 .. Len(catlist[k].lists)}
    BY <2>3, ListHas
  <2> QED
    BY <2>2, <2>3, <2>4
<1>10. /\ Len(catlist) # 0 => Realized(catlist[Len(catlist)].class)
       /\ Len(catlist) = 0 /\ Len(classlist) # 0 => Realized(classlist[Len(classlist)].class)
  BY <1>1, <1>2, <1>3, <1>4, <1>7 DEF Last
<1>11. \/ HasSections(image) /\ image.modules = << >>
       \/ Len(classlist) = 0 /\ Len(catlist) = 0
  BY <1>3, <1>4, <1>5, <1>6, <1>7
<1> DEFINE held == UNION {ToSet(Methods(image.modules[k].imps, k, FALSE) \o Methods(image.modules[k].meta, k, TRUE)) :
                             k \in DOMAIN image.modules}
<1>17. IsList(ModuleMethods(image)) /\ ToSet(ModuleMethods(image)) = held
  BY ModulesAre
<1>18. image.modules = << >> => held = {}
  OBVIOUS
<1>19. MethodsIn(image) = ClassesUpTo(Len(classlist)) \cup CategoriesUpTo(Len(catlist)) \cup held
  <2>1. MethodsIn(image) =
            (UNION {Own(c.class, FALSE) \cup Own(c.metaclass, TRUE) : c \in ToSet(classlist)})
              \cup (UNION {OfCategory(c) : c \in ToSet(catlist)}) \cup held
    BY DEF MethodsIn
  <2>2. UNION {Own(c.class, FALSE) \cup Own(c.metaclass, TRUE) : c \in ToSet(classlist)} = ClassesUpTo(Len(classlist))
    <3>1. ClassesUpTo(Len(classlist)) =
              UNION {Own(classlist[k].class, FALSE) \cup Own(classlist[k].metaclass, TRUE) : k \in 1 .. Len(classlist)}
      BY DEF ClassesUpTo, ClassMethods
    <3> DEFINE F(c) == Own(c.class, FALSE) \cup Own(c.metaclass, TRUE)
    <3>2. ClassesUpTo(Len(classlist)) = UNION {F(classlist[k]) : k \in 1 .. Len(classlist)}
      BY <3>1
    <3> HIDE DEF classlist, F
    <3>3. UNION {F(c) : c \in ToSet(classlist)} = UNION {F(classlist[k]) : k \in 1 .. Len(classlist)}
      BY <1>1
    <3> QED
      BY <3>2, <3>3 DEF F
  <2>3. UNION {OfCategory(c) : c \in ToSet(catlist)} = CategoriesUpTo(Len(catlist))
    BY <1>2 DEF CategoriesUpTo
  <2> DEFINE C == ClassesUpTo(Len(classlist))
             G == CategoriesUpTo(Len(catlist))
             H == held
             D == UNION {Own(c.class, FALSE) \cup Own(c.metaclass, TRUE) : c \in ToSet(classlist)}
             E == UNION {OfCategory(c) : c \in ToSet(catlist)}
  <2>5. MethodsIn(image) = D \cup E \cup H
    <3> HIDE DEF held
    <3> QED
      BY <2>1
  <2>6. D = C
    BY <2>2
  <2>7. E = G
    BY <2>3
  <2> HIDE DEF C, G, H, D, E
  <2>4. MethodsIn(image) = C \cup G \cup H
    BY <2>5, <2>6, <2>7
  <2> USE DEF C, G, H
  <2> QED
    BY <2>4
<1> HIDE DEF held
<1>20. Len(classlist) \in Nat /\ Len(catlist) \in Nat
  BY <1>1, <1>2
<1> QED
  BY <1>5, <1>8, <1>9, <1>10, <1>11, <1>17, <1>18, <1>19, <1>20

LEMMA MethodsAreCode ==
    ASSUME Assumed
    PROVE  \A m \in MethodsIn(image) : m.imp \in Nat \ {0}
<1>1. \A rw, meta : \A m \in Own(rw, meta) : m.imp \in Nat \ {0}
  <2> SUFFICES ASSUME NEW rw, NEW meta, NEW m \in Own(rw, meta) PROVE m.imp \in Nat \ {0}
    OBVIOUS
  <2>1. Realized(rw)
    BY DEF Own
  <2>2. HasCode(process.ro[process.rw[rw].ro].list.imps)
    BY <2>1, CodeAssumption DEF Realized, Assumed
  <2>3. ToSet(process.ro[process.rw[rw].ro].list.imps) \subseteq Nat \ {0}
    BY <2>2, ListIs DEF HasCode
  <2> QED
    BY <2>1, <2>3 DEF Own
<1>2. \A k \in 1 .. Len(image.catlist) : \A m \in OfCategory(image.catlist[k]) : m.imp \in Nat \ {0}
  <2> SUFFICES ASSUME NEW k \in 1 .. Len(image.catlist), NEW m \in OfCategory(image.catlist[k])
               PROVE  m.imp \in Nat \ {0}
    OBVIOUS
  <2>1. PICK list \in ToSet(image.catlist[k].lists) : \E imp \in ToSet(list.imps) : m.imp = imp
    BY DEF OfCategory
  <2>2. HasCode(list.imps)
    <3>1. IsList(image.catlist[k].lists) /\ \A n \in 1 .. Len(image.catlist[k].lists) : HasCode(image.catlist[k].lists[n].imps)
      BY SearchableIs
    <3>2. ToSet(image.catlist[k].lists) = {image.catlist[k].lists[n] : n \in 1 .. Len(image.catlist[k].lists)}
      BY <3>1, ListHas
    <3> QED
      BY <2>1, <3>1, <3>2
  <2>3. ToSet(list.imps) \subseteq Nat \ {0}
    BY <2>2, ListIs DEF HasCode
  <2> QED
    BY <2>1, <2>3
<1>3. \A m \in ToSet(ModuleMethods(image)) : m.imp \in Nat \ {0}
  BY ModulesAre
<1> SUFFICES ASSUME NEW m \in MethodsIn(image) PROVE m.imp \in Nat \ {0}
  OBVIOUS
<1>4. CASE m \in ClassesUpTo(Len(image.classlist))
  BY <1>1, <1>4 DEF ClassesUpTo, ClassMethods
<1>5. CASE m \in CategoriesUpTo(Len(image.catlist))
  BY <1>2, <1>5 DEF CategoriesUpTo
<1> QED
  BY <1>3, <1>4, <1>5, SearchableIs

----------------------------------------------------------------------------
(* The way of a lookup: wherever it is, it has visited the items before.   *)

\* What the symbol table answered.
Known == Begun(process, strategy, frame).answer

Sound(found, V) == IsSound(found, V, MethodsIn(image), frame.pc, Known)

\* A lookup is where it has visited the items before, and none of them has ended it.
Progress(c) ==
    \/ /\ c.stage = "modules" /\ Sound(c, {})
    \/ /\ c.stage = "map" /\ Sound(c, {}) /\ image.modules = << >>
    \/ /\ c.stage = "class" /\ c.at \in 1 .. Len(image.classlist) + 1 /\ image.modules = << >>
       /\ Sound(c, ClassesUpTo(c.at - 1))
       /\ c.err = "ESUCCESS" \/ (c.at # 1 /\ ~ Realized(image.classlist[c.at - 1].class))
    \/ /\ c.stage = "metaclass" /\ c.at \in 1 .. Len(image.classlist) /\ image.modules = << >>
       /\ Realized(image.classlist[c.at].class)
       /\ Sound(c, ClassesUpTo(c.at - 1) \cup Own(image.classlist[c.at].class, FALSE))
    \/ /\ c.stage = "category" /\ c.at \in 1 .. Len(image.catlist) + 1 /\ image.modules = << >>
       /\ Sound(c, ClassesUpTo(Len(image.classlist)) \cup CategoriesUpTo(c.at - 1))
       /\ \/ c.err = "ESUCCESS"
          \/ c.at # 1 /\ ~ Realized(image.catlist[c.at - 1].class)
          \/ c.at = 1 /\ Len(image.classlist) # 0 /\ ~ Realized(image.classlist[Len(image.classlist)].class)
    \/ /\ c.stage = "parsed" /\ Sound(c, MethodsIn(image))
       /\ c.err = "ESUCCESS" \/ MethodsIn(image) = {}

\* What it ends with.
Concluded(c) ==
    /\ c.stage = "answer"
    /\ \/ c.answer = Known /\ \A m \in MethodsIn(image) : ~ (m.imp <= frame.pc)
       \/ \E m \in MethodsIn(image) :
             /\ m.imp <= frame.pc /\ \A n \in MethodsIn(image) : n.imp <= frame.pc => n.imp <= m.imp
             /\ c.answer = [Better(Known, m) EXCEPT !.ok = TRUE]

LEMMA AtIs ==
    ASSUME NEW where, NEW item, NEW error, NEW found
    PROVE  LET c == At(where, item, error, found)
           IN /\ c.stage = where /\ c.at = item /\ c.err = error
              /\ c.search = found.search /\ c.answer = found.answer
              /\ \A V : Sound(c, V) <=> Sound(found, V)
<1> DEFINE c == At(where, item, error, found)
<1>1. c.stage = where /\ c.at = item /\ c.err = error /\ c.search = found.search /\ c.answer = found.answer
  BY DEF At
<1> HIDE DEF c
<1>2. \A V : Sound(c, V) <=> Sound(found, V)
  BY <1>1 DEF Sound, IsSound
<1> QED
  BY <1>1, <1>2 DEF c

LEMMA KnownIs ==
    /\ Known = [ok |-> Known.ok, symbol |-> Known.symbol]
    /\ Known.ok = (Known.symbol # NoSymbol)
    /\ Known.symbol = IF "symtab" \in strategy THEN find_symbol_by_pc(image, frame.pc) ELSE NoSymbol
<1> DEFINE symbol == IF "symtab" \in strategy THEN find_symbol_by_pc(image, frame.pc) ELSE NoSymbol
<1>1. Known = [ok |-> symbol # NoSymbol, symbol |-> symbol]
  BY DEF Known, Begun, At, image
<1> HIDE DEF symbol
<1> QED
  BY <1>1 DEF symbol

LEMMA BeginsSound ==
    ASSUME Assumed
    PROVE  Progress(Begun(process, strategy, frame))
<1> DEFINE b == Begun(process, strategy, frame)
<1>1. b.stage = "modules" /\ b.search = [parse |-> "search", best |-> 0, called |-> FALSE] /\ b.answer = Known
  BY DEF Begun, At, Assumed, Known
<1> HIDE DEF b
<1>2. Sound(b, {})
  BY <1>1 DEF Sound, IsSound, IsGreatest
<1> QED
  BY <1>1, <1>2 DEF Progress, b

LEMMA UpToIs ==
    /\ ClassesUpTo(0) = {} /\ CategoriesUpTo(0) = {}
    /\ \A n \in Nat : /\ ClassesUpTo(n + 1) = ClassesUpTo(n) \cup ClassMethods(n + 1)
                      /\ CategoriesUpTo(n + 1) = CategoriesUpTo(n) \cup OfCategory(image.catlist[n + 1])
    /\ \A n \in Nat : \A k \in 1 .. n : ClassMethods(k) \subseteq ClassesUpTo(n)
    /\ \A n \in Nat : \A k \in 1 .. n : OfCategory(image.catlist[k]) \subseteq CategoriesUpTo(n)
    /\ \A n \in Nat : \A k \in 0 .. n : ClassesUpTo(k) \subseteq ClassesUpTo(n)
    /\ \A n \in Nat : \A k \in 0 .. n : CategoriesUpTo(k) \subseteq CategoriesUpTo(n)
<1> DEFINE C(k) == ClassMethods(k)
           G(k) == OfCategory(image.catlist[k])
<1>1. \A n : ClassesUpTo(n) = UNION {C(k) : k \in 1 .. n} /\ CategoriesUpTo(n) = UNION {G(k) : k \in 1 .. n}
  BY DEF ClassesUpTo, CategoriesUpTo
<1>2. 1 .. 0 = {} /\ \A n \in Nat : 1 .. n + 1 = (1 .. n) \cup {n + 1}
  OBVIOUS
<1>3. \A n \in Nat : \A k \in 0 .. n : 1 .. k \subseteq 1 .. n
  OBVIOUS
<1> HIDE DEF C, G
<1>4. ClassesUpTo(0) = {} /\ CategoriesUpTo(0) = {}
  BY <1>1, <1>2
<1>5. ASSUME NEW n \in Nat
      PROVE  ClassesUpTo(n + 1) = ClassesUpTo(n) \cup C(n + 1) /\ CategoriesUpTo(n + 1) = CategoriesUpTo(n) \cup G(n + 1)
  BY <1>1, <1>2
<1>6. ASSUME NEW n \in Nat, NEW k \in 1 .. n PROVE C(k) \subseteq ClassesUpTo(n) /\ G(k) \subseteq CategoriesUpTo(n)
  BY <1>1
<1>7. ASSUME NEW n \in Nat, NEW k \in 0 .. n
      PROVE  ClassesUpTo(k) \subseteq ClassesUpTo(n) /\ CategoriesUpTo(k) \subseteq CategoriesUpTo(n)
  BY <1>1, <1>3
<1> QED
  BY <1>4, <1>5, <1>6, <1>7 DEF C, G

\* A class, then its metaclass, of the classes that are searched.
LEMMA ClassProgress ==
    ASSUME Assumed, NEW c, NEW d, Progress(c), InClass(process, image, frame, c, d)
    PROVE  Progress(d)
<1> DEFINE classlist == image.classlist
           k == c.at
           V == ClassesUpTo(k - 1)
           All == MethodsIn(image)
<1>1. /\ c.stage = "class" /\ k \in 1 .. Len(classlist) + 1 /\ image.modules = << >> /\ Sound(c, V)
      /\ c.err = "ESUCCESS" \/ (k # 1 /\ ~ Realized(classlist[k - 1].class))
  BY DEF InClass, Progress
<1>2. Len(classlist) \in Nat /\ Len(image.catlist) \in Nat
  BY SearchableIs
<1>3. CASE k <= Len(classlist)
  <2> DEFINE rw == classlist[k].class
             r == ParsedMethods(process, frame, rw, FALSE, c)
  <2>1. IsParsed(rw) /\ (Realized(rw) => IsItsOwn(ListOf(rw))) /\ (Realized(rw) <=> Realized(classlist[k].metaclass))
    BY <1>1, <1>3, SearchableIs
  <2>2. ClassMethods(k) \subseteq All /\ V \subseteq All
    <3>1. ClassMethods(k) \subseteq ClassesUpTo(Len(classlist)) /\ V \subseteq ClassesUpTo(Len(classlist))
      <4>1. k \in 1 .. Len(classlist) /\ k - 1 \in 0 .. Len(classlist)
        BY <1>1, <1>2, <1>3
      <4> HIDE DEF k, classlist
      <4> QED
        BY <1>2, <4>1, UpToIs DEF k, classlist
    <3> QED
      BY <3>1, SearchableIs
  <2>3. Own(rw, FALSE) \subseteq All
    BY <2>2 DEF ClassMethods
  <2>4. IsSound(c, V, All, frame.pc, Known) /\ frame.pc \in Nat /\ process \in Processes
    BY <1>1 DEF Sound, Assumed
  <2> HIDE DEF V, All, rw
  <2>5. /\ r.err = IF Realized(rw) THEN "ESUCCESS" ELSE "ENOTFOUND"
        /\ IsSound(r, V \cup Own(rw, FALSE), All, frame.pc, Known)
    BY <2>1, <2>2, <2>3, <2>4, MethodsAreCode, OwnParsed DEF All
  <2>6. Sound(r, V \cup Own(rw, FALSE))
    BY <2>5 DEF Sound, All
  <2>7. \/ r.err = "ESUCCESS" /\ d = At("metaclass", k, "ESUCCESS", r)
        \/ r.err = "ENOTFOUND" /\ d = At("class", k + 1, "ENOTFOUND", r)
    BY <1>3, <2>5 DEF InClass, rw
  <2> HIDE DEF r
  <2>8. CASE Realized(rw)
    <3>1. d = At("metaclass", k, "ESUCCESS", r)
      BY <2>5, <2>7, <2>8
    <3>2. d.stage = "metaclass" /\ d.at = k /\ Sound(d, V \cup Own(rw, FALSE))
      BY <2>6, <3>1, AtIs
    <3>3. k \in 1 .. Len(classlist)
      BY <1>1, <1>2, <1>3
    <3> QED
      BY <1>1, <2>8, <3>2, <3>3 DEF Progress, V, rw
  <2>9. CASE ~ Realized(rw)
    <3>1. d = At("class", k + 1, "ENOTFOUND", r)
      BY <2>5, <2>7, <2>9
    <3>2. d.stage = "class" /\ d.at = k + 1 /\ Sound(d, V \cup Own(rw, FALSE))
      BY <2>6, <3>1, AtIs
    <3>3. k + 1 \in 1 .. Len(classlist) + 1 /\ k + 1 - 1 = k /\ k + 1 # 1 /\ k - 1 \in Nat /\ (k - 1) + 1 = k
      <4>1. k \in 1 .. Len(classlist) + 1 /\ Len(classlist) \in Nat /\ k <= Len(classlist)
        BY <1>1, <1>2, <1>3
      <4> HIDE DEF k, classlist
      <4> QED
        BY <4>1
    <3>4. V \cup Own(rw, FALSE) = ClassesUpTo(k)
      <4>1. Own(rw, FALSE) = {} /\ Own(classlist[k].metaclass, TRUE) = {}
        BY <2>1, <2>9 DEF Own
      <4>2. ClassMethods(k) = {}
        BY <4>1 DEF ClassMethods, rw
      <4>3. ClassesUpTo((k - 1) + 1) = ClassesUpTo(k - 1) \cup ClassMethods((k - 1) + 1)
        BY <3>3, UpToIs
      <4> QED
        BY <3>3, <4>1, <4>2, <4>3 DEF V
    <3>5. Sound(d, ClassesUpTo(d.at - 1)) /\ ~ Realized(classlist[d.at - 1].class)
      <4>1. d.at - 1 = k
        BY <3>2, <3>3
      <4> QED
        BY <2>9, <3>2, <3>4, <4>1 DEF rw
    <3> QED
      BY <1>1, <3>2, <3>3, <3>5 DEF Progress
  <2> QED
    BY <2>8, <2>9
<1>4. CASE ~ (k <= Len(classlist))
  <2>1. d = At("category", 1, c.err, c)
    BY <1>4 DEF InClass
  <2>2. d.stage = "category" /\ d.at = 1 /\ d.err = c.err /\ Sound(d, V)
    BY <1>1, <2>1, AtIs
  <2>3. k - 1 = Len(classlist) /\ 1 \in 1 .. Len(image.catlist) + 1 /\ 1 - 1 = 0
    BY <1>1, <1>2, <1>4
  <2>4. V = ClassesUpTo(Len(classlist)) \cup CategoriesUpTo(0)
    <3>1. CategoriesUpTo(0) = {}
      BY UpToIs
    <3> QED
      BY <2>3, <3>1
  <2>5. d.err = "ESUCCESS" \/ (Len(classlist) # 0 /\ ~ Realized(classlist[Len(classlist)].class))
    BY <1>1, <1>2, <2>2, <2>3
  <2> HIDE DEF V
  <2>6. Sound(d, ClassesUpTo(Len(classlist)) \cup CategoriesUpTo(d.at - 1))
    BY <2>2, <2>3, <2>4
  <2> QED
    BY <1>1, <2>2, <2>3, <2>5, <2>6 DEF Progress
<1> QED
  BY <1>3, <1>4

LEMMA ClassesGoOn ==
    ASSUME NEW d, d.stage = "class", d.at \in 1 .. Len(image.classlist) + 1, image.modules = << >>,
           Sound(d, ClassesUpTo(d.at - 1)), d.err = "ESUCCESS"
    PROVE  Progress(d)
BY DEF Progress

LEMMA MetaclassProgress ==
    ASSUME Assumed, NEW c, NEW d, Progress(c), InMetaclass(process, image, frame, c, d)
    PROVE  Progress(d)
<1> DEFINE classlist == image.classlist
           k == c.at
           V == ClassesUpTo(k - 1)
           W == V \cup Own(classlist[k].class, FALSE)
           All == MethodsIn(image)
           rw == classlist[k].metaclass
           r == ParsedMethods(process, frame, rw, TRUE, c)
<1>1. /\ c.stage = "metaclass" /\ k \in 1 .. Len(classlist) /\ image.modules = << >> /\ Sound(c, W)
      /\ Realized(classlist[k].class)
  BY DEF InMetaclass, Progress
<1>2. Len(classlist) \in Nat /\ k - 1 \in 0 .. Len(classlist) /\ k + 1 - 1 = k /\ k + 1 # 1 /\ (k - 1) + 1 = k /\ k - 1 \in Nat
      /\ k + 1 \in 1 .. Len(classlist) + 1
  <2>1. Len(classlist) \in Nat
    BY SearchableIs
  <2> HIDE DEF k, classlist
  <2> QED
    BY <1>1, <2>1 DEF k, classlist
<1>3. Realized(rw) /\ IsParsed(rw) /\ IsItsOwn(ListOf(rw))
  <2>1. Realized(rw) /\ IsItsOwn(ListOf(rw))
    BY <1>1, SearchableIs
  <2> QED
    BY <2>1 DEF IsParsed, Realized
<1>4. ClassMethods(k) \subseteq All /\ W \subseteq All /\ Own(rw, TRUE) \subseteq All
  <2>1. ClassMethods(k) \subseteq ClassesUpTo(Len(classlist)) /\ V \subseteq ClassesUpTo(Len(classlist))
    <3> HIDE DEF k, classlist
    <3> QED
      BY <1>1, <1>2, UpToIs DEF k, classlist
  <2>2. Own(rw, TRUE) \subseteq ClassMethods(k) /\ Own(classlist[k].class, FALSE) \subseteq ClassMethods(k)
    BY DEF ClassMethods
  <2> HIDE DEF V
  <2> QED
    BY <2>1, <2>2, SearchableIs
<1>5. IsSound(c, W, All, frame.pc, Known) /\ frame.pc \in Nat /\ process \in Processes
  BY <1>1 DEF Sound, Assumed
<1>6. V \cup ClassMethods(k) = ClassesUpTo(k)
  <2>1. ClassesUpTo((k - 1) + 1) = ClassesUpTo(k - 1) \cup ClassMethods((k - 1) + 1)
    BY <1>2, UpToIs
  <2> QED
    BY <1>2, <2>1
<1>7. W \cup Own(rw, TRUE) = ClassesUpTo(k)
  <2> HIDE DEF V
  <2> QED
    BY <1>6 DEF ClassMethods
<1> HIDE DEF W, All, rw
<1>8. /\ r.err = IF Realized(rw) THEN "ESUCCESS" ELSE "ENOTFOUND"
      /\ IsSound(r, W \cup Own(rw, TRUE), All, frame.pc, Known)
  BY <1>3, <1>4, <1>5, MethodsAreCode, OwnParsed DEF All
<1>9. Sound(r, ClassesUpTo(k))
  BY <1>7, <1>8 DEF Sound, All
<1>10. d = At("class", k + 1, "ESUCCESS", r)
  BY <1>3, <1>8 DEF InMetaclass, rw
<1> HIDE DEF r
<1>11. d.stage = "class" /\ d.at = k + 1 /\ d.err = "ESUCCESS" /\ Sound(d, ClassesUpTo(k))
  BY <1>9, <1>10, AtIs
<1>12. Sound(d, ClassesUpTo(d.at - 1))
  <2>1. d.at - 1 = k
    BY <1>2, <1>11
  <2> QED
    BY <1>11, <2>1
<1>13. d.at \in 1 .. Len(image.classlist) + 1
  BY <1>2, <1>11
<1> QED
  BY <1>1, <1>11, <1>12, <1>13, ClassesGoOn

\* The lists of a category hold its methods.
LEMMA CategoryHolds ==
    ASSUME Assumed, NEW k \in 1 .. Len(image.catlist)
    PROVE  LET c == image.catlist[k]
           IN OfCategory(c) = IF Realized(c.class) THEN ListsHold(c.lists, DataOf(process, c.class).name) ELSE {}
<1> DEFINE c == image.catlist[k]
           owner == DataOf(process, c.class).name
           F(list) == MethodsOf(list.imps, owner, list.meta)
<1>1. IsList(c.lists)
  BY SearchableIs
<1>2. ToSet(c.lists) = {c.lists[n] : n \in 1 .. Len(c.lists)}
  BY <1>1, ListHas
<1>3. CASE Realized(c.class)
  <2>1. OfCategory(c) = UNION {F(list) : list \in ToSet(c.lists)}
    BY <1>3 DEF OfCategory, MethodsOf, DataOf
  <2>2. ListsHold(c.lists, owner) = UNION {F(c.lists[n]) : n \in 1 .. Len(c.lists)}
    BY DEF ListsHold
  <2> HIDE DEF F, owner
  <2>3. UNION {F(list) : list \in ToSet(c.lists)} = UNION {F(c.lists[n]) : n \in 1 .. Len(c.lists)}
    BY <1>2
  <2> QED
    BY <1>3, <2>1, <2>2, <2>3 DEF owner
<1>4. CASE ~ Realized(c.class)
  BY <1>4 DEF OfCategory
<1> QED
  BY <1>3, <1>4

LEMMA CategoryProgress ==
    ASSUME Assumed, NEW c, NEW d, Progress(c), InCategory(process, image, frame, c, d)
    PROVE  Progress(d)
<1> DEFINE catlist == image.catlist
           k == c.at
           C == ClassesUpTo(Len(image.classlist))
           V == C \cup CategoriesUpTo(k - 1)
           All == MethodsIn(image)
<1>1. /\ c.stage = "category" /\ k \in 1 .. Len(catlist) + 1 /\ image.modules = << >> /\ Sound(c, V)
      /\ \/ c.err = "ESUCCESS"
         \/ k # 1 /\ ~ Realized(catlist[k - 1].class)
         \/ k = 1 /\ Len(image.classlist) # 0 /\ ~ Realized(image.classlist[Len(image.classlist)].class)
  BY DEF InCategory, Progress
<1>2. Len(catlist) \in Nat
  BY SearchableIs
<1>3. All = C \cup CategoriesUpTo(Len(catlist))
  <2>1. ToSet(ModuleMethods(image)) = {}
    BY <1>1, SearchableIs
  <2> QED
    BY <2>1, SearchableIs
<1>4. CASE k <= Len(catlist)
  <2> DEFINE rw == catlist[k].class
             lists == catlist[k].lists
             r == Parsed(process, frame, rw, lists, c)
             held == IF Realized(rw) THEN ListsHold(lists, DataOf(process, rw).name) ELSE {}
  <2>0. k \in 1 .. Len(catlist) /\ k - 1 \in 0 .. Len(catlist) /\ k - 1 \in Nat /\ (k - 1) + 1 = k
        /\ k + 1 \in 1 .. Len(catlist) + 1 /\ k + 1 # 1 /\ k + 1 - 1 = k
    <3> HIDE DEF k, catlist
    <3> QED
      BY <1>1, <1>2, <1>4
  <2>1. /\ IsParsed(rw) /\ IsList(lists)
        /\ Realized(rw) => \A n \in 1 .. Len(lists) : IsItsOwn(lists[n])
        /\ \A n \in 1 .. Len(lists) : HasCode(lists[n].imps)
    BY <2>0, SearchableIs
  <2>2. OfCategory(catlist[k]) = held
    BY <2>0, CategoryHolds
  <2>3. held \subseteq CategoriesUpTo(Len(catlist)) /\ CategoriesUpTo(k - 1) \subseteq CategoriesUpTo(Len(catlist))
        /\ CategoriesUpTo(k) = CategoriesUpTo(k - 1) \cup held
    <3>1. CategoriesUpTo((k - 1) + 1) = CategoriesUpTo(k - 1) \cup OfCategory(catlist[(k - 1) + 1])
      BY <2>0, UpToIs
    <3>2. OfCategory(catlist[k]) \subseteq CategoriesUpTo(Len(catlist))
      BY <1>2, <2>0, UpToIs
    <3>3. CategoriesUpTo(k - 1) \subseteq CategoriesUpTo(Len(catlist))
      BY <1>2, <2>0, UpToIs
    <3> QED
      BY <2>0, <2>2, <3>1, <3>2, <3>3
  <2>4. held \subseteq All /\ V \subseteq All /\ V \cup held = C \cup CategoriesUpTo(k)
    <3> HIDE DEF C, held, All
    <3> QED
      BY <1>3, <2>3
  <2>5. IsSound(c, V, All, frame.pc, Known) /\ frame.pc \in Nat
    BY <1>1 DEF Sound, Assumed
  <2>6. Realized(rw) => ListsHold(lists, DataOf(process, rw).name) \subseteq All
    BY <2>4
  <2> HIDE DEF V, All, rw, lists
  <2>7. /\ r.err = IF Realized(rw) THEN "ESUCCESS" ELSE "ENOTFOUND"
        /\ IsSound(r, V \cup (IF Realized(rw) THEN ListsHold(lists, DataOf(process, rw).name) ELSE {}),
                   All, frame.pc, Known)
    BY <2>1, <2>4, <2>5, <2>6, MethodsAreCode, ListsParsed DEF All
  <2>8. Sound(r, C \cup CategoriesUpTo(k))
    BY <2>4, <2>7 DEF Sound, All
  <2>9. d = At("category", k + 1, r.err, r)
    BY <1>4, <2>7 DEF InCategory, rw, lists
  <2> HIDE DEF r, C
  <2>10. d.stage = "category" /\ d.at = k + 1 /\ d.err = r.err /\ Sound(d, C \cup CategoriesUpTo(k))
    BY <2>8, <2>9, AtIs
  <2>11. d.at - 1 = k
    BY <2>0, <2>10
  <2>12. d.err = "ESUCCESS" \/ ~ Realized(catlist[d.at - 1].class)
    BY <2>7, <2>10, <2>11 DEF rw
  <2>13. Sound(d, C \cup CategoriesUpTo(d.at - 1))
    BY <2>10, <2>11
  <2> QED
    BY <1>1, <2>0, <2>10, <2>12, <2>13 DEF Progress, C
<1>5. CASE ~ (k <= Len(catlist))
  <2>1. d = At("parsed", 0, c.err, c)
    BY <1>5 DEF InCategory
  <2>2. d.stage = "parsed" /\ d.err = c.err /\ Sound(d, V)
    BY <1>1, <2>1, AtIs
  <2>3. k = Len(catlist) + 1 /\ k - 1 = Len(catlist)
    <3> HIDE DEF k, catlist
    <3> QED
      BY <1>1, <1>2, <1>5
  <2>4. V = All
    BY <1>3, <2>3
  <2>5. c.err = "ESUCCESS"
    <3>1. Len(catlist) # 0 => Realized(catlist[Len(catlist)].class)
      BY SearchableIs
    <3>2. Len(catlist) = 0 /\ Len(image.classlist) # 0 => Realized(image.classlist[Len(image.classlist)].class)
      BY SearchableIs
    <3>3. Len(catlist) = 0 <=> k = 1
      BY <1>2, <2>3
    <3> QED
      BY <1>1, <2>3, <3>1, <3>2, <3>3
  <2> QED
    BY <2>2, <2>4, <2>5 DEF Progress
<1> QED
  BY <1>4, <1>5

LEMMA ModulesProgress ==
    ASSUME Assumed, NEW c, NEW d, Progress(c), InModules(image, frame, c, d)
    PROVE  Progress(d)
<1> DEFINE All == MethodsIn(image)
           M == ToSet(ModuleMethods(image))
<1>1. c.stage = "modules" /\ Sound(c, {})
  BY DEF InModules, Progress
<1>2. CASE image.modules = << >>
  <2>1. d = At("map", 0, "ESUCCESS", c)
    BY <1>2 DEF InModules
  <2> QED
    BY <1>1, <1>2, <2>1, AtIs DEF Progress
<1>3. CASE image.modules # << >>
  <2> DEFINE r == Called(ModuleMethods(image), frame.pc, c)
  <2>1. d = At("parsed", 0, "ESUCCESS", r)
    BY <1>3 DEF InModules
  <2>2. All = M /\ IsList(ModuleMethods(image))
    <3>1. Len(image.classlist) = 0 /\ Len(image.catlist) = 0
      BY <1>3, SearchableIs
    <3>2. ClassesUpTo(0) = {} /\ CategoriesUpTo(0) = {}
      BY UpToIs
    <3> QED
      BY <3>1, <3>2, SearchableIs
  <2>3. IsSound(c, {}, All, frame.pc, Known) /\ frame.pc \in Nat
    BY <1>1 DEF Sound, Assumed
  <2> HIDE DEF All
  <2>4. M \subseteq All /\ {} \subseteq All
    BY <2>2
  <2>5. IsSound(r, {} \cup M, All, frame.pc, Known)
    BY <2>2, <2>3, <2>4, MethodsAreCode, CalledIsSound DEF All
  <2>6. {} \cup M = All
    BY <2>2
  <2>7. Sound(r, All)
    BY <2>5, <2>6 DEF Sound, All
  <2> HIDE DEF r
  <2> QED
    BY <2>1, <2>7, AtIs DEF Progress, All
<1> QED
  BY <1>2, <1>3

LEMMA MapProgress ==
    ASSUME Assumed, NEW c, NEW d, Progress(c), InMap(image, c, d)
    PROVE  Progress(d)
<1>1. c.stage = "map" /\ Sound(c, {}) /\ image.modules = << >>
  BY DEF InMap, Progress
<1>2. ClassesUpTo(0) = {} /\ CategoriesUpTo(0) = {} /\ ToSet(ModuleMethods(image)) = {}
  BY <1>1, SearchableIs, UpToIs
<1>3. CASE HasSections(image)
  <2>1. d = At("class", 1, "ESUCCESS", c)
    BY <1>3 DEF InMap
  <2>2. d.stage = "class" /\ d.at = 1 /\ d.err = "ESUCCESS" /\ Sound(d, {})
    BY <1>1, <2>1, AtIs
  <2>3. ClassesUpTo(d.at - 1) = {}
    BY <1>2, <2>2
  <2>4. 1 \in 1 .. Len(image.classlist) + 1
    <3>1. Len(image.classlist) \in Nat
      BY SearchableIs
    <3> QED
      BY <3>1
  <2>5. Sound(d, ClassesUpTo(d.at - 1)) /\ d.at \in 1 .. Len(image.classlist) + 1
    BY <2>2, <2>3, <2>4
  <2> QED
    BY <1>1, <2>2, <2>5, ClassesGoOn
<1>4. CASE ~ HasSections(image)
  <2>1. d = At("parsed", 0, "ENOTFOUND", c)
    BY <1>4 DEF InMap
  <2>2. MethodsIn(image) = {}
    BY <1>2, <1>4, SearchableIs
  <2> QED
    BY <1>1, <2>1, <2>2, AtIs DEF Progress
<1> QED
  BY <1>3, <1>4

\* After a parse the methods are searched again, or the answer is there.
LEMMA AfterParseProgress ==
    ASSUME Assumed, NEW c, NEW d, Progress(c), AfterParse(c, d)
    PROVE  Progress(d) \/ Concluded(d)
<1> DEFINE All == MethodsIn(image)
           best == c.search.best
           again == c.search.parse = "search" /\ c.err = "ESUCCESS" /\ best # 0
<1>1. /\ c.stage = "parsed" /\ Sound(c, All)
      /\ c.err = "ESUCCESS" \/ All = {}
  BY DEF AfterParse, Progress
<1>2. /\ c.search = [parse |-> c.search.parse, best |-> best, called |-> c.search.called]
      /\ \/ /\ c.search.parse = "search" /\ c.search.called = FALSE
            /\ c.answer = Known
            /\ IsGreatest(best, All, frame.pc)
         \/ /\ c.search.parse = "call" /\ best # 0
            /\ IsGreatest(best, All, frame.pc)
            /\ \/ /\ c.search.called = FALSE /\ c.answer = Known
                  /\ \A m \in All : m.imp # best
               \/ /\ c.search.called = TRUE
                  /\ \E m \in All : m.imp = best /\ c.answer = Better(Known, m)
  BY <1>1 DEF Sound, IsSound
<1>3. CASE again
  <2> DEFINE found == [search |-> [c.search EXCEPT !.parse = "call"], answer |-> c.answer]
  <2>1. d = At("modules", 0, "ESUCCESS", found)
    BY <1>3 DEF AfterParse
  <2>2. found.search = [parse |-> "call", best |-> best, called |-> FALSE] /\ found.answer = Known
    BY <1>2, <1>3
  <2> HIDE DEF found
  <2>3. IsGreatest(best, All, frame.pc) /\ best # 0
    BY <1>2, <1>3
  <2>4. Sound(found, {})
    BY <2>2, <2>3 DEF Sound, IsSound
  <2> QED
    BY <2>1, <2>4, AtIs DEF Progress
<1>4. CASE ~ again
  <2> DEFINE ok == c.answer.ok \/ (c.search.parse = "call" /\ c.err = "ESUCCESS")
             found == [search |-> c.search, answer |-> [c.answer EXCEPT !.ok = ok]]
  <2>1. d = At("answer", 0, "ESUCCESS", found)
    BY <1>4 DEF AfterParse
  <2>2. d.stage = "answer" /\ d.answer = [c.answer EXCEPT !.ok = ok]
    BY <2>1 DEF At
  <2>3. CASE c.search.parse = "search"
    <3>1. best = 0 \/ All = {}
      BY <1>1, <1>4, <2>3
    <3>2. \A m \in All : ~ (m.imp <= frame.pc)
      <4>1. IsGreatest(best, All, frame.pc)
        BY <1>2, <2>3
      <4>2. \A m \in All : m.imp \in Nat \ {0}
        BY MethodsAreCode
      <4> HIDE DEF All
      <4> QED
        BY <3>1, <4>1, <4>2 DEF IsGreatest
    <3>3. c.answer = Known
      BY <1>2, <2>3
    <3>4. ok = Known.ok
      <4>1. Known.ok \in BOOLEAN
        <5> HIDE DEF ok
        <5> QED
          BY KnownIs
      <4>2. c.search.parse # "call"
        BY <2>3
      <4> QED
        BY <3>3, <4>1, <4>2
    <3>5. d.answer = Known
      <4> HIDE DEF ok
      <4> QED
        BY <2>2, <3>3, <3>4, KnownIs
    <3> QED
      BY <2>2, <3>2, <3>5 DEF Concluded
  <2>4. CASE c.search.parse # "search"
    <3>1. c.search.parse = "call" /\ best # 0 /\ IsGreatest(best, All, frame.pc)
      BY <1>2, <2>4
    <3>2. /\ \E m \in All : m.imp = best
          /\ best <= frame.pc /\ \A m \in All : m.imp <= frame.pc => m.imp <= best
      BY <3>1 DEF IsGreatest
    <3>3. PICK m \in All : m.imp = best /\ c.answer = Better(Known, m)
      BY <1>2, <2>4, <3>2
    <3>4. c.err = "ESUCCESS"
      BY <1>1, <3>2
    <3>5. ok = TRUE
      BY <3>1, <3>4
    <3>6. d.answer = [Better(Known, m) EXCEPT !.ok = TRUE]
      <4> HIDE DEF ok
      <4> QED
        BY <2>2, <3>3, <3>5
    <3>7. m.imp <= frame.pc /\ \A n \in All : n.imp <= frame.pc => n.imp <= m.imp
      BY <3>2, <3>3
    <3> QED
      BY <2>2, <3>6, <3>7 DEF Concluded
  <2> QED
    BY <2>3, <2>4
<1> QED
  BY <1>3, <1>4

\* A step of a lookup.
LEMMA FollowsProgress ==
    ASSUME Assumed, NEW c, NEW d, Progress(c), Follows(process, frame, c, d)
    PROVE  Progress(d) \/ Concluded(d)
<1>1. \/ InModules(image, frame, c, d) \/ InMap(image, c, d) \/ InClass(process, image, frame, c, d)
      \/ InMetaclass(process, image, frame, c, d) \/ InCategory(process, image, frame, c, d) \/ AfterParse(c, d)
  BY DEF Follows, image
<1> QED
  BY <1>1, ModulesProgress, MapProgress, ClassProgress, MetaclassProgress, CategoryProgress, AfterParseProgress

\* Wherever a lookup comes to, it has visited the items before, or it has concluded.
LEMMA ReachedIs ==
    ASSUME Assumed, NEW c, Reached(process, strategy, frame, c)
    PROVE  Progress(c) \/ Concluded(c)
<1>1. PICK n, q : Lookup(process, strategy, frame, q, n) /\ q[n] = c
  BY DEF Reached
<1>2. n \in Nat /\ q[0] = Begun(process, strategy, frame)
      /\ \A k \in 0 .. n - 1 : Follows(process, frame, q[k], q[k + 1])
  BY <1>1 DEF Lookup
<1> DEFINE T == {k \in 0 .. n : ~ (Progress(q[k]) \/ Concluded(q[k]))}
<1>3. T = {}
  <2> SUFFICES ASSUME T # {} PROVE FALSE
    OBVIOUS
  <2>1. PICK k \in T : \A j \in T : k <= j
    <3>1. T \in SUBSET Nat
      BY <1>2
    <3> HIDE DEF T
    <3> QED
      BY <3>1, LeastNumber
  <2>2. k \in 0 .. n /\ ~ (Progress(q[k]) \/ Concluded(q[k]))
    OBVIOUS
  <2>3. k # 0
    BY <1>2, <2>2, BeginsSound
  <2>4. PICK j : j = k - 1
    OBVIOUS
  <2>5. j \in 0 .. n - 1 /\ j \in 0 .. n /\ j + 1 = k /\ ~ (k <= j)
    BY <1>2, <2>2, <2>3, <2>4
  <2>6. j \notin T
    <3> HIDE DEF T
    <3> QED
      BY <2>1, <2>5
  <2>7. Progress(q[j]) \/ Concluded(q[j])
    BY <2>5, <2>6
  <2>8. Follows(process, frame, q[j], q[k])
    BY <1>2, <2>5
  <2>9. q[j].stage # "answer"
    BY <2>8, OneFollows
  <2>10. Progress(q[j])
    BY <2>7, <2>9 DEF Concluded
  <2> QED
    BY <2>2, <2>8, <2>10, FollowsProgress
<1>4. n \in 0 .. n /\ n \notin T
  BY <1>2, <1>3
<1> QED
  BY <1>1, <1>4

\* Where only the symbol table is searched, nothing follows what it answers.
LEMMA ReachedFirstOnly ==
    ASSUME "objc" \notin strategy, NEW c, Reached(process, strategy, frame, c)
    PROVE  c = Begun(process, strategy, frame)
<1>1. PICK n, q : Lookup(process, strategy, frame, q, n) /\ q[n] = c
  BY DEF Reached
<1>2. n \in Nat /\ q[0] = Begun(process, strategy, frame)
      /\ \A k \in 0 .. n - 1 : Follows(process, frame, q[k], q[k + 1])
  BY <1>1 DEF Lookup
<1>3. q[0].stage = "answer"
  BY <1>2 DEF Begun, At
<1>4. n = 0
  <2> SUFFICES ASSUME n # 0 PROVE FALSE
    OBVIOUS
  <2>1. 0 \in 0 .. n - 1
    BY <1>2
  <2>2. Follows(process, frame, q[0], q[0 + 1])
    BY <1>2, <2>1
  <2> QED
    BY <1>3, <2>2, OneFollows
<1> QED
  BY <1>1, <1>2, <1>4

----------------------------------------------------------------------------
(* What it concludes is the symbol that begins closest before the pc.      *)

Start(m) == m.imp - (m.imp % 2)

LEMMA EvenBefore ==
    ASSUME NEW a \in Nat, NEW b \in Nat
    PROVE  /\ a - (a % 2) = IF a % 2 = 1 THEN a - 1 ELSE a
           /\ a <= b => a - (a % 2) <= b - (b % 2)
OBVIOUS

\* The methods that are searched.
Searchable == IF "objc" \in strategy THEN MethodsIn(image) ELSE {}

\* The entries before the pc, and those of them whose symbol the table answers.
Before == IF "symtab" \in strategy THEN {e \in Entries(image) : e.value + image.slide <= frame.pc} ELSE {}
IsAnswer(e) ==
    /\ e \in Before /\ \A d \in Before : d.value + image.slide <= e.value + image.slide
    /\ Known.symbol = [address |-> normalized_value(e) + image.slide, name |-> e.name]

LEMMA EntriesAre ==
    ASSUME process \in Processes, frame.image \in Images
    PROVE  /\ image.slide \in Int
           /\ \A e \in Entries(image) : /\ e.value \in Nat /\ e.thumb \in BOOLEAN /\ e.value + image.slide > 0
                                        /\ normalized_value(e) \in {e.value, e.value + 1}
<1>1. /\ image.slide \in Int
      /\ \A e \in ToSet(image.symtab) :
            e.value \in Nat /\ e.thumb \in BOOLEAN /\ (e.kind = "section" => e.value + image.slide > 0)
  BY CodeAssumption DEF image
<1>2. ASSUME NEW e \in Entries(image) PROVE e \in ToSet(image.symtab) /\ e.kind = "section"
  <2>1. IsReadable(image) /\ e.kind = "section"
        /\ (e \in ToSet(SymbolsIn(image, image.global)) \/ e \in ToSet(SymbolsIn(image, image.local)))
    BY DEF Entries
  <2>2. /\ ToSet(SymbolsIn(image, image.global)) \subseteq ToSet(image.symtab)
        /\ ToSet(SymbolsIn(image, image.local)) \subseteq ToSet(image.symtab)
    BY <2>1, RangeIs DEF image
  <2> QED
    BY <2>1, <2>2
<1> QED
  BY <1>1, <1>2 DEF normalized_value

LEMMA TableAnswers ==
    ASSUME process \in Processes, frame.image \in Images, frame.pc \in Nat
    PROVE  IF Before = {} THEN Known.symbol = NoSymbol /\ Known.ok = FALSE
           ELSE (\E e \in Before : IsAnswer(e)) /\ Known.symbol # NoSymbol /\ Known.ok = TRUE
<1>1. CASE "symtab" \notin strategy
  BY <1>1, KnownIs DEF Before
<1>2. CASE "symtab" \in strategy
  <2> DEFINE x == find_symbol_by_pc(image, frame.pc)
             before == {e \in Entries(image) : e.value + image.slide <= frame.pc}
  <2>1. IF before = {} THEN x = NoSymbol
        ELSE \E e \in before :
                /\ \A d \in before : d.value + image.slide <= e.value + image.slide
                /\ x = [address |-> normalized_value(e) + image.slide, name |-> e.name]
    BY SymbolTableIs DEF image
  <2>2. Before = before /\ Known.symbol = x
    BY <1>2, KnownIs DEF Before
  <2> HIDE DEF x, before
  <2>3. CASE Before = {}
    <3>1. Known.symbol = NoSymbol
      BY <2>1, <2>2, <2>3
    <3> QED
      BY <2>3, <3>1, KnownIs
  <2>4. CASE Before # {}
    <3>1. PICK e \in Before : IsAnswer(e)
      BY <2>1, <2>2, <2>4 DEF IsAnswer
    <3>2. e \in Entries(image)
      BY <3>1 DEF Before
    <3>3. normalized_value(e) + image.slide # 0
      BY <3>2, EntriesAre
    <3>4. Known.symbol # NoSymbol
      BY <3>1, <3>3 DEF IsAnswer, NoSymbol
    <3> QED
      BY <2>4, <3>1, <3>4, KnownIs
  <2> QED
    BY <2>3, <2>4
<1> QED
  BY <1>1, <1>2

\* The symbols of an image, and where they begin.
LEMMA SymbolsAre ==
    ASSUME NEW s, s \in SymbolsOf(image), s.start <= frame.pc
    PROVE  \/ \E e \in Before : s.start = e.value + image.slide
           \/ \E m \in Searchable : s.start = Start(m)
BY DEF SymbolsOf, Before, Searchable, Start

LEMMA EntryIsSymbol ==
    ASSUME NEW e \in Before
    PROVE  /\ [address |-> normalized_value(e) + image.slide, name |-> e.name, start |-> e.value + image.slide]
                 \in SymbolsOf(image)
           /\ e.value + image.slide <= frame.pc
BY DEF SymbolsOf, Before

LEMMA MethodIsSymbol ==
    ASSUME NEW m \in Searchable
    PROVE  [address |-> m.imp, name |-> m.name, start |-> Start(m)] \in SymbolsOf(image)
BY DEF SymbolsOf, Searchable, Start

\* A symbol that no other follows up to the pc is the nearest.
LEMMA NearestIs ==
    ASSUME NEW s \in SymbolsOf(image), s.start <= frame.pc,
           \A t \in SymbolsOf(image) : t.start <= frame.pc => t.start <= s.start,
           IsFound, answer.symbol = [address |-> s.address, name |-> s.name]
    PROVE  IsNearest
BY DEF IsNearest

LEMMA AnswerIsNearest ==
    ASSUME process \in Processes, frame.image \in Images, frame.pc \in Nat,
           \A m \in Searchable : m.imp \in Nat \ {0} /\ m.imp # frame.pc + 1 /\ IsDisjoint(m),
           \/ answer = Known /\ \A m \in Searchable : ~ (m.imp <= frame.pc)
           \/ \E m \in Searchable :
                 /\ m.imp <= frame.pc /\ \A n \in Searchable : n.imp <= frame.pc => n.imp <= m.imp
                 /\ answer = [Better(Known, m) EXCEPT !.ok = TRUE]
    PROVE  IsNearest
<1> DEFINE pc == frame.pc
           slide == image.slide
           EntryOf(e) == [address |-> normalized_value(e) + slide, name |-> e.name, start |-> e.value + slide]
           SymbolOf(m) == [address |-> m.imp, name |-> m.name, start |-> Start(m)]
<1>0. \A e \in Before : e \in Entries(image) /\ e.value + slide \in Int /\ e.value + slide <= pc
  BY EntriesAre DEF Before
<1>1. \A m \in Searchable : /\ Start(m) = IF m.imp % 2 = 1 THEN m.imp - 1 ELSE m.imp
                            /\ Start(m) <= pc => m.imp <= pc
  <2> SUFFICES ASSUME NEW m \in Searchable
               PROVE  /\ Start(m) = IF m.imp % 2 = 1 THEN m.imp - 1 ELSE m.imp
                      /\ Start(m) <= pc => m.imp <= pc
    OBVIOUS
  <2>1. Start(m) = IF m.imp % 2 = 1 THEN m.imp - 1 ELSE m.imp
    BY EvenBefore DEF Start
  <2> QED
    BY <2>1
<1>2. CASE answer = Known /\ \A m \in Searchable : ~ (m.imp <= pc)
  <2>1. \A s \in SymbolsOf(image) : s.start <= pc => \E e \in Before : s.start = e.value + slide
    BY <1>1, <1>2, SymbolsAre
  <2>2. CASE Before = {}
    <3>1. ~ IsFound
      BY <1>2, <2>2, TableAnswers DEF IsFound
    <3>2. {s \in SymbolsOf(image) : s.start <= pc} = {}
      BY <2>1, <2>2
    <3> QED
      BY <3>1, <3>2 DEF IsNearest
  <2>3. CASE Before # {}
    <3>1. PICK e \in Before : IsAnswer(e)
      BY <2>3, TableAnswers
    <3>2. IsFound /\ answer.symbol = [address |-> normalized_value(e) + slide, name |-> e.name]
      BY <1>2, <2>3, <3>1, TableAnswers DEF IsFound, IsAnswer
    <3>3. EntryOf(e) \in SymbolsOf(image) /\ EntryOf(e).start <= pc
      BY <3>1, EntryIsSymbol
    <3>4. \A t \in SymbolsOf(image) : t.start <= pc => t.start <= EntryOf(e).start
      BY <2>1, <3>1 DEF IsAnswer
    <3>5. answer.symbol = [address |-> EntryOf(e).address, name |-> EntryOf(e).name]
      BY <3>2
    <3> HIDE DEF EntryOf
    <3> QED
      BY <3>2, <3>3, <3>4, <3>5, NearestIs
  <2> QED
    BY <2>2, <2>3
<1>3. ASSUME NEW m \in Searchable, m.imp <= pc, \A n \in Searchable : n.imp <= pc => n.imp <= m.imp,
             answer = [Better(Known, m) EXCEPT !.ok = TRUE]
      PROVE  IsNearest
  <2>1. \A n \in Searchable : Start(n) <= pc => Start(n) <= Start(m)
    <3> SUFFICES ASSUME NEW n \in Searchable, Start(n) <= pc PROVE Start(n) <= Start(m)
      OBVIOUS
    <3>1. n.imp <= m.imp /\ n.imp \in Nat /\ m.imp \in Nat
      BY <1>1, <1>3
    <3> QED
      BY <3>1, EvenBefore DEF Start
  <2>2. m.imp \in Nat \ {0} /\ Start(m) \in Int /\ Start(m) <= m.imp /\ Start(m) <= pc
    <3>1. m.imp \in Nat \ {0} /\ Start(m) = IF m.imp % 2 = 1 THEN m.imp - 1 ELSE m.imp
      BY <1>1
    <3> QED
      BY <1>3, <3>1
  <2>3. ASSUME Known.symbol # NoSymbol /\ m.imp < Known.symbol.address PROVE IsNearest
    <3>1. PICK e \in Before : IsAnswer(e)
      BY <2>3, TableAnswers
    <3>2. answer = [Known EXCEPT !.ok = TRUE]
      BY <1>3, <2>3 DEF Better
    <3>3. answer.symbol = Known.symbol /\ answer.ok = TRUE
      BY <3>2, KnownIs
    <3>4. IsFound /\ answer.symbol = [address |-> normalized_value(e) + slide, name |-> e.name]
      BY <2>3, <3>1, <3>3 DEF IsFound, IsAnswer
    <3>5. EntryOf(e) \in SymbolsOf(image) /\ EntryOf(e).start <= pc
      BY <3>1, EntryIsSymbol
    <3>6. Start(m) <= e.value + slide
      <4>1. m.imp < normalized_value(e) + slide
        BY <2>3, <3>1 DEF IsAnswer
      <4>2. normalized_value(e) \in {e.value, e.value + 1} /\ e.value \in Nat /\ slide \in Int
        BY <1>0, <3>1, EntriesAre
      <4> QED
        BY <2>2, <4>1, <4>2
    <3>7. \A t \in SymbolsOf(image) : t.start <= pc => t.start <= EntryOf(e).start
      <4> SUFFICES ASSUME NEW t \in SymbolsOf(image), t.start <= pc PROVE t.start <= e.value + slide
        OBVIOUS
      <4>1. CASE \E x \in Before : t.start = x.value + slide
        BY <3>1, <4>1 DEF IsAnswer
      <4>2. CASE \E n \in Searchable : t.start = Start(n)
        <5>1. PICK n \in Searchable : t.start = Start(n)
          BY <4>2
        <5>2. Start(n) <= Start(m) /\ Start(n) \in Int
          BY <1>1, <2>1, <5>1
        <5>3. e.value + slide \in Int
          BY <1>0
        <5> QED
          BY <2>2, <3>6, <5>1, <5>2, <5>3
      <4> QED
        BY <4>1, <4>2, SymbolsAre
    <3>8. answer.symbol = [address |-> EntryOf(e).address, name |-> EntryOf(e).name]
      BY <3>4
    <3> HIDE DEF EntryOf
    <3> QED
      BY <3>4, <3>5, <3>7, <3>8, NearestIs
  <2>4. ASSUME ~ (Known.symbol # NoSymbol /\ m.imp < Known.symbol.address) PROVE IsNearest
    <3>1. answer = [[Known EXCEPT !.symbol = [address |-> m.imp, name |-> m.name]] EXCEPT !.ok = TRUE]
      BY <1>3, <2>4 DEF Better
    <3>2. answer.symbol = [address |-> m.imp, name |-> m.name] /\ answer.ok = TRUE
      BY <3>1, KnownIs
    <3>3. IsFound
      BY <2>2, <3>2 DEF IsFound, NoSymbol
    <3>4. SymbolOf(m) \in SymbolsOf(image) /\ SymbolOf(m).start <= pc
      BY <2>2, MethodIsSymbol
    <3>5. ASSUME NEW x \in Before PROVE x.value + slide <= Start(m)
      <4>0. Before # {}
        OBVIOUS
      <4>1. PICK e \in Before : IsAnswer(e)
        BY <4>0, TableAnswers
      <4>2. Known.symbol # NoSymbol /\ Known.symbol.address = normalized_value(e) + slide
        <5>1. Known.symbol # NoSymbol
          BY <4>0, TableAnswers
        <5>2. Known.symbol.address = normalized_value(e) + slide
          BY <4>1 DEF IsAnswer
        <5> QED
          BY <5>1, <5>2
      <4>3. /\ normalized_value(e) \in {e.value, e.value + 1} /\ e.value \in Nat /\ slide \in Int
            /\ x.value \in Nat /\ e \in Entries(image)
        BY <1>0, <4>1, EntriesAre
      <4>4. ~ (m.imp < normalized_value(e) + slide)
        BY <2>4, <4>2
      <4>5. e.value + slide <= m.imp
        BY <2>2, <4>3, <4>4
      <4>6. m.imp % 2 = 1 => e.value + slide # m.imp
        BY <4>3 DEF IsDisjoint
      <4>7. e.value + slide <= Start(m)
        <5>1. Start(m) = IF m.imp % 2 = 1 THEN m.imp - 1 ELSE m.imp
          BY <1>1
        <5> QED
          BY <2>2, <4>3, <4>5, <4>6, <5>1
      <4>8. x.value + slide <= e.value + slide
        BY <4>1 DEF IsAnswer
      <4> QED
        BY <2>2, <4>3, <4>7, <4>8
    <3>6. \A t \in SymbolsOf(image) : t.start <= pc => t.start <= SymbolOf(m).start
      <4> SUFFICES ASSUME NEW t \in SymbolsOf(image), t.start <= pc PROVE t.start <= Start(m)
        OBVIOUS
      <4> QED
        BY <2>1, <3>5, SymbolsAre
    <3>7. answer.symbol = [address |-> SymbolOf(m).address, name |-> SymbolOf(m).name]
      BY <3>2
    <3> HIDE DEF SymbolOf
    <3> QED
      BY <3>3, <3>4, <3>6, <3>7, NearestIs
  <2> QED
    BY <2>3, <2>4
<1> QED
  BY <1>2, <1>3

\* A frame has an address of code.
PcsAreNumbers == \A k \in 1 .. Len(stack) : stack[k].pc \in Nat

LEMMA InitPcs == Init => PcsAreNumbers
<1> SUFFICES ASSUME Init PROVE PcsAreNumbers
  OBVIOUS
<1>1. PICK n \in 1 .. MaxFrames : stack \in [1 .. n -> FramesOf(process)]
  BY DEF Init, Stacks
<1>2. Len(stack) = n
  BY <1>1, SymbolicationAssumption
<1>3. \A i \in Images : process.pcs[i] \subseteq Nat
  BY CodeAssumption DEF Init
<1>4. \A f \in FramesOf(process) : f.pc \in Nat
  BY <1>3 DEF FramesOf
<1> QED
  BY <1>1, <1>2, <1>4 DEF PcsAreNumbers

LEMMA NextPcs ==
    ASSUME PcsAreNumbers, [Next]_vars
    PROVE  PcsAreNumbers'
<1>1. stack' = stack
  BY DEF Next, vars, writer, searchSymbolTable, parse_from_module_info, map_sections, parseClass, parseMetaclass,
         endOfClasses, parseCategory, endOfCategories, find_method, write_thread_frame, write_thread, cache_free
<1> QED
  BY <1>1 DEF PcsAreNumbers

LEMMA WriterNames ==
    ASSUME IndInv, process \in Processes, WriterInv, PcsAreNumbers
    PROVE  NearestSymbolIsNamed
<1> SUFFICES ASSUME stage = "answer", IsSearchable,
                    \A m \in MethodsIn(image) : m.imp # frame.pc + 1 /\ IsDisjoint(m)
             PROVE  IsNearest
  BY DEF NearestSymbolIsNamed
<1>1. frame.image \in Images /\ frame.pc \in Nat
  <2>1. turn.frame \in 1 .. Len(stack)
    BY DEF IndInv, CacheOK, TypeOK
  <2> QED
    BY <2>1, FrameHasImage DEF PcsAreNumbers, frame
<1>2. Reached(process, strategy, frame, Here) /\ Here.stage = "answer" /\ Here.answer = answer
  BY HereIs DEF WriterInv, LookupGoesItsWay, LookupStages
<1>3. CASE "objc" \in strategy
  <2>1. Assumed
    BY <1>1, <1>3 DEF Assumed
  <2> DEFINE h == Here
  <2>2. Reached(process, strategy, frame, h) /\ h.stage = "answer" /\ h.answer = answer
    BY <1>2
  <2> HIDE DEF h
  <2>3. Concluded(h)
    <3>1. Progress(h) \/ Concluded(h)
      BY <2>1, <2>2, ReachedIs
    <3> QED
      BY <2>2, <3>1 DEF Progress
  <2>4. Searchable = MethodsIn(image)
    BY <1>3 DEF Searchable
  <2>5. \A m \in Searchable : m.imp \in Nat \ {0} /\ m.imp # frame.pc + 1 /\ IsDisjoint(m)
    BY <2>1, <2>4, MethodsAreCode
  <2>6. \/ answer = Known /\ \A m \in Searchable : ~ (m.imp <= frame.pc)
        \/ \E m \in Searchable :
              /\ m.imp <= frame.pc /\ \A n \in Searchable : n.imp <= frame.pc => n.imp <= m.imp
              /\ answer = [Better(Known, m) EXCEPT !.ok = TRUE]
    BY <2>2, <2>3, <2>4 DEF Concluded
  <2> QED
    BY <1>1, <2>5, <2>6, AnswerIsNearest
<1>4. CASE "objc" \notin strategy
  <2>1. Here = Begun(process, strategy, frame)
    BY <1>2, <1>4, ReachedFirstOnly
  <2>2. answer = Known
    BY <1>2, <2>1 DEF Known
  <2>3. Searchable = {}
    BY <1>4 DEF Searchable
  <2> QED
    BY <1>1, <2>2, <2>3, AnswerIsNearest
<1> QED
  BY <1>3, <1>4

\* A lookup names the symbol that begins closest before the pc, whichever of the symbol table and
\* the methods of classes, categories and modules it is found in, whatever was looked up before
\* and whatever the cache has kept of it: the two parses of find_method visit every method, and
\* what the second reports is compared with the symbol table's answer.
THEOREM ClosestSymbolIsNamed == Spec => []NearestSymbolIsNamed
<1> DEFINE All == IndInv /\ CacheIsTrue /\ process \in Processes /\ WriterInv /\ PcsAreNumbers
<1>1. Init => All
  BY InitInv, InitTrue, InitWriter, InitPcs DEF Init
<1>2. All /\ [Next]_vars => All'
  BY NextInv, NextTrue, NextWriter, NextPcs
<1>3. All => NearestSymbolIsNamed
  BY WriterNames
<1> HIDE DEF All
<1> QED
  BY <1>1, <1>2, <1>3, PTL DEF Spec
=============================================================================
