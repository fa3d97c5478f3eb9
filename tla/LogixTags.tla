------------------------------ MODULE LogixTags ------------------------------
(***************************************************************************)
(* The Logix5000 layer (layers/cip/layers/Logix5000/index.js) over the      *)
(* sendRequest of the CIP layer: each call of its methods is a chain of     *)
(* async functions that share the layer's caches.                           *)
(*                                                                          *)
(* stack[c] holds the frames of call c, the innermost first.  A frame has   *)
(* the function it belongs to, "at", where it awaits, and its variables;    *)
(* value[c] is what it awaits, "waiting" for a request at the device.  One  *)
(* function runs up to its next await in one step, and every function that  *)
(* can run does before a reply comes or the program makes a call.           *)
(*                                                                          *)
(* The name of a symbol is its instance id, a tag is the sequence of its    *)
(* dotted parts, a scope the name of a program, and <<>> is no scope.  What *)
(* a reply holds is the ids, types and bytes the functions look at.  The    *)
(* device is external: it answers a request with what it holds or refuses   *)
(* it; an error stands for a timeout and a destroyed layer as well.         *)
(***************************************************************************)
EXTENDS Integers, FiniteSets, SequencesExt

CONSTANTS
  Calls,        \* bound: calls of the layer's methods
  Operations,   \* what a call may be, see Frame
  Ids,          \* the instance ids of each scope's symbols
  TypeOf,       \* the type of each
  System,       \* ids of symbols that belong to the system
  Members,      \* the types of each template's members
  Bytes,        \* the size of each template's definition
  Large,        \* ids of symbols whose value does not fit in a reply
  TagBytes,     \* its size
  Fit,          \* how much does fit
  MaxRetry,     \* MAX_RETRY, 5 in the code
  MayRefuse     \* TRUE: the device may refuse what it could answer

None == -1
NoType == "none"
Scopes == DOMAIN Ids
Templates == DOMAIN Members
Types == {"atomic", "program"} \cup Templates

ASSUME LogixAssumption ==
  /\ \A s \in Scopes : Ids[s] \subseteq Nat /\ IsFiniteSet(Ids[s])
  /\ \A s \in Scopes : TypeOf[s] \in [Ids[s] -> Types]
  /\ \A t \in Templates : Members[t] \in Seq({"atomic"} \cup Templates)
  /\ Bytes \in [Templates -> Nat \ {0}]
  /\ Fit \in Nat \ {0} /\ TagBytes \in Nat /\ TagBytes > Fit
  /\ MaxRetry \in Nat /\ MayRefuse \in BOOLEAN

VARIABLES
  stack, value,  \* the functions of each call
  outcome,       \* how the promise of each call stands
  symbolId,      \* _tagNameToSymbolInstanceID
  highest,       \* _highestListedSymbolInstanceIDs
  tags,          \* _tags
  attributes,    \* _templateInstanceAttributes: the templates it has
  templates,     \* _templates: the definition it was built from
  listed         \* what a call of listTags has yielded, and how it ended

caches == <<symbolId, highest, tags, attributes, templates>>
vars == <<stack, value, outcome, caches, listed>>

Started == [is |-> "started"]
Waiting == [is |-> "waiting"]
Thrown == [is |-> "thrown"]
Error == [is |-> "error"]
Returned(x) == [is |-> "returned", value |-> x]
Reply(partial, data) == [is |-> "reply", partial |-> partial, data |-> data]

(* The functions, with what they are called with.                            *)
Lookup(scope, tag, number) ==
  [fn |-> "lookup", at |-> "start", scope |-> scope, tag |-> tag, number |-> number,
   from |-> 0, retry |-> 0]
Info(scope, tag, number) ==
  [fn |-> "info", at |-> "start", scope |-> scope, tag |-> tag, number |-> number,
   id |-> None, from |-> 0, retry |-> 0]
Attributes(scope, tag, number) ==
  [fn |-> "attributes", at |-> "start", scope |-> scope, tag |-> tag, number |-> number,
   id |-> None]
Size(scope, tag) ==
  [fn |-> "size", at |-> "start", scope |-> scope, tag |-> tag, part |-> 2, template |-> NoType]
Template(t) == [fn |-> "template", at |-> "start", template |-> t, offset |-> 0,
                data |-> <<>>]
TemplateAttributes(t) == [fn |-> "template attributes", at |-> "start", template |-> t]
Read(tag, number, elements) ==
  [fn |-> "read", at |-> "start", scope |-> tag, tag |-> tag, number |-> number,
   elements |-> elements, offset |-> 0, names |-> <<>>, more |-> FALSE,
   from |-> 0, retry |-> 0]
Write(tag, number) == [fn |-> "write", at |-> "start", tag |-> tag, number |-> number]
List(scope) == [fn |-> "list", at |-> "start", scope |-> scope, from |-> 0, retry |-> 0]
Single(fn) == [fn |-> fn, at |-> "start"]

(* What the program calls, with a tag of at least one part, or a number, and *)
(* with no number of elements to read, one, or what is not a number.         *)
Names == Seq(Nat)
Tags == Names \ {<<>>}
IsOperation(f) ==
  CASE f.fn = "read" ->
         /\ f.tag \in Tags /\ f.number \in BOOLEAN /\ f.elements \in {"none", "given", "invalid"}
         /\ f = Read(f.tag, f.number, f.elements)
    [] f.fn = "write" ->
         f.tag \in Tags /\ f.number \in BOOLEAN /\ f = Write(f.tag, f.number)
    [] f.fn = "attributes" ->
         /\ f.scope \in Names /\ f.tag \in Tags /\ f.number \in BOOLEAN
         /\ f = Attributes(f.scope, f.tag, f.number)
    [] f.fn = "list" -> f.scope \in Names /\ f = List(f.scope)
    [] f.fn = "template" -> f = Template(f.template) /\ f.template \in Templates
    [] OTHER -> f \in {Single("modify"), Single("controller"), Single("class")}

ASSUME OperationsAssumption == \A f \in Operations : IsOperation(f)

Init ==
  /\ stack = [c \in Calls |-> <<>>] /\ value = [c \in Calls |-> Waiting]
  /\ outcome = [c \in Calls |-> "idle"]
  /\ symbolId = [s \in Scopes |-> None] /\ highest = [s \in Scopes |-> None]
  /\ tags = [s \in Scopes |-> NoType]
  /\ attributes = {} /\ templates = [t \in Templates |-> <<>>]
  /\ listed = [c \in Calls |-> [scope |-> <<>>, ids |-> <<>>, ended |-> "no"]]

-----------------------------------------------------------------------------
(* The keys of the two maps of symbols: the function that builds one ignores *)
(* its arguments and uses those of the function around it, the scope.        *)
Key(scope, tag) == scope
Cached(cache, key, absent) == IF key \in Scopes THEN cache[key] ELSE absent

Top(c) == Head(stack[c])
Runs(c, fn) == stack[c] # <<>> /\ Top(c).fn = fn /\ value[c].is # "waiting"
Is(c, is) == value[c].is = is

(* What a function does next: await a request, call another, or end.         *)
Send(c, f) ==
  /\ stack' = [stack EXCEPT ![c] = <<f>> \o Tail(@)]
  /\ value' = [value EXCEPT ![c] = Waiting]
  /\ UNCHANGED outcome
Enter(c, f, callee) ==
  /\ stack' = [stack EXCEPT ![c] = <<callee, f>> \o Tail(@)]
  /\ value' = [value EXCEPT ![c] = Started]
  /\ UNCHANGED outcome
Become(c, f) ==
  /\ stack' = [stack EXCEPT ![c] = <<f>> \o Tail(@)]
  /\ value' = [value EXCEPT ![c] = Started]
  /\ UNCHANGED outcome
End(c, v, how) ==
  /\ stack' = [stack EXCEPT ![c] = Tail(@)]
  /\ value' = [value EXCEPT ![c] = IF Len(stack[c]) = 1 THEN Waiting ELSE v]
  /\ outcome' = IF Len(stack[c]) = 1 THEN [outcome EXCEPT ![c] = how] ELSE outcome
Return(c, x) == End(c, Returned(x), "resolved")
Throw(c) == End(c, Thrown, "rejected")

(* An async function passed to CallbackPromise throws: nothing settles.      *)
Lose(c) == End(c, Waiting, "lost")

(* Faulty form of Page: the next one begins at the last tag of this.        *)
PageAgain(f, v) == [f EXCEPT !.retry = 0, !.from = IF v.data = <<>> THEN @ ELSE v.data[Len(v.data)]]

(* The generator listTags has a page: where the next one begins.             *)
Page(f, v) ==
  [f EXCEPT !.retry = 0, !.from = IF v.data = <<>> THEN @ ELSE v.data[Len(v.data)] + 1]
MorePages(v) == v.partial /\ v.data # <<>>
GivesUp(c) == Top(c).at = "page" /\ Is(c, "error") /\ Top(c).retry = MaxRetry
GotPage(c) == Top(c).at = "page" /\ Is(c, "reply")

(* Faulty forms of Retry: there is no limit, or attempts are not counted.    *)
RetryUnlimited(c) ==
  /\ stack[c] # <<>> /\ Top(c).at = "page" /\ Is(c, "error")
  /\ Send(c, [Top(c) EXCEPT !.retry = @ + 1])
  /\ UNCHANGED <<caches, listed>>
RetryForEver(c) ==
  /\ stack[c] # <<>> /\ Top(c).at = "page" /\ Is(c, "error") /\ Top(c).retry < MaxRetry
  /\ Send(c, Top(c))
  /\ UNCHANGED <<caches, listed>>

(* It asks again after an error, MAX_RETRY times in a row.                   *)
Retry(c) ==
  /\ stack[c] # <<>> /\ Top(c).at = "page" /\ Is(c, "error") /\ Top(c).retry < MaxRetry
  /\ Send(c, [Top(c) EXCEPT !.retry = @ + 1])
  /\ UNCHANGED <<caches, listed>>

(* getSymbolInstanceID: lists the names after the highest id listed so far,  *)
(* until the map has the key of the name.                                    *)
LookupRuns(c) ==
  LET f == Top(c)
      v == value[c]
      key == Key(f.scope, f.tag)
      start == [f EXCEPT !.at = "page", !.from = Cached(highest, f.scope, None) + 1]
      last == v.data[Len(v.data)]
  IN  /\ Runs(c, "lookup")
      /\ \/ /\ Is(c, "started") /\ UNCHANGED <<symbolId, highest>>
            /\ CASE f.number -> Return(c, f.tag[1])
                 [] ~f.number /\ Cached(symbolId, key, None) # None -> Return(c, symbolId[key])
                 [] OTHER -> Send(c, start)
         \/ /\ GotPage(c)
            /\ IF v.data = <<>> THEN UNCHANGED <<symbolId, highest>>
               ELSE /\ symbolId' = [symbolId EXCEPT ![Key(f.scope, <<last>>)] = last]
                    /\ highest' = [highest EXCEPT ![f.scope] = last]
            /\ CASE symbolId'[key] # None -> Return(c, symbolId'[key])
                 [] symbolId'[key] = None /\ MorePages(v) -> Send(c, Page(f, v))
                 [] OTHER -> Return(c, None)
         \/ GivesUp(c) /\ Return(c, None) /\ UNCHANGED <<symbolId, highest>>
      /\ UNCHANGED <<tags, attributes, templates, listed>>

(* getSymbolInfo, for the type: from the map, or from one page.              *)
InfoRuns(c) ==
  LET f == Top(c)
      v == value[c]
      key == Key(f.scope, <<f.id>>)
      page == v.data
  IN  /\ Runs(c, "info")
      /\ \/ /\ Is(c, "started") /\ UNCHANGED tags
            /\ Enter(c, f, Lookup(f.scope, f.tag, f.number))
         \/ /\ Is(c, "returned") /\ UNCHANGED tags
            /\ CASE v.value = None -> Return(c, NoType)
                 [] v.value # None /\ Cached(tags, key, NoType) # NoType -> Return(c, tags[key])
                 [] OTHER -> Send(c, [f EXCEPT !.at = "page", !.id = v.value, !.from = v.value])
         \/ /\ GotPage(c)
            /\ tags' = IF page = <<>> THEN tags
                       ELSE [tags EXCEPT ![key] = TypeOf[f.scope][page[Len(page)]]]
            /\ Return(c, IF \E i \in DOMAIN page : page[i] = f.id
                           THEN TypeOf[f.scope][f.id] ELSE NoType)
         \/ GivesUp(c) /\ Return(c, NoType) /\ UNCHANGED tags
      /\ UNCHANGED <<symbolId, highest, attributes, templates, listed>>

(* readSymbolAttributeList and readSymbolAttributesAll.                      *)
AttributesRun(c) ==
  LET f == Top(c)
      v == value[c]
  IN  /\ Runs(c, "attributes")
      /\ \/ Is(c, "started") /\ Enter(c, f, Lookup(f.scope, f.tag, f.number))
         \/ /\ Is(c, "returned")
            /\ IF v.value = None THEN Throw(c)
               ELSE Send(c, [f EXCEPT !.at = "request", !.id = v.value])
         \/ Is(c, "reply") /\ Return(c, f.id)
         \/ Is(c, "error") /\ Throw(c)
      /\ UNCHANGED <<caches, listed>>

(* getSymbolSize: what it finds is only the number of elements to ask for,   *)
(* and an error makes it 1.                                                  *)
SizeRuns(c) ==
  LET f == Top(c)
      v == value[c]
      Walk(t, i) == Enter(c, [f EXCEPT !.at = "template", !.template = t, !.part = i], Template(t))
      member == IF f.tag[f.part] \in DOMAIN Members[f.template]
                  THEN Members[f.template][f.tag[f.part]] ELSE NoType
  IN  /\ Runs(c, "size")
      /\ \/ /\ Is(c, "started")
            /\ IF Len(f.tag) = 1
                 THEN Enter(c, [f EXCEPT !.at = "attributes"], Attributes(f.scope, f.tag, FALSE))
                 ELSE Enter(c, [f EXCEPT !.at = "info"], Info(f.scope, <<Head(f.tag)>>, FALSE))
         \/ Is(c, "thrown") /\ Return(c, 1)
         \/ /\ Is(c, "returned") /\ f.at = "attributes" /\ Return(c, 1)
         \/ /\ Is(c, "returned") /\ f.at = "info"
            /\ CASE v.value = "program" -> Become(c, Size(<<Head(f.tag)>>, Tail(f.tag)))
                 [] v.value \in Templates -> Walk(v.value, 2)
                 [] OTHER -> Return(c, 1)
         \/ /\ Is(c, "returned") /\ f.at = "template"
            /\ IF member \in Templates /\ f.part < Len(f.tag)
                 THEN Walk(member, f.part + 1) ELSE Return(c, 1)
      /\ UNCHANGED <<caches, listed>>

(* readTemplateInstanceAttributes.                                           *)
TemplateAttributesRun(c) ==
  LET t == Top(c).template
  IN  /\ Runs(c, "template attributes")
      /\ \/ /\ Is(c, "started") /\ UNCHANGED attributes
            /\ IF t \in attributes THEN Return(c, Bytes[t])
               ELSE Send(c, [Top(c) EXCEPT !.at = "request"])
         \/ Is(c, "reply") /\ attributes' = attributes \cup {t} /\ Return(c, Bytes[t])
         \/ Is(c, "error") /\ Throw(c) /\ UNCHANGED attributes
      /\ UNCHANGED <<symbolId, highest, tags, templates, listed>>

(* Faulty form of NextOffset: that of the last reply alone.                  *)
OffsetOfLast(f, v) == Len(v.data)

(* readTemplate: chunk by chunk, each from where the last one ended.         *)
NextOffset(f, v) == f.offset + Len(v.data)

TemplateRuns(c) ==
  LET f == Top(c)
      v == value[c]
  IN  /\ Runs(c, "template")
      /\ \/ /\ Is(c, "started") /\ UNCHANGED templates
            /\ IF templates[f.template] # <<>> THEN Return(c, f.template)
               ELSE Enter(c, f, TemplateAttributes(f.template))
         \/ /\ Is(c, "returned") /\ UNCHANGED templates
            /\ Send(c, [f EXCEPT !.at = "chunk"])
         \/ /\ Is(c, "reply")
            /\ IF v.partial
                 THEN /\ Send(c, [f EXCEPT !.data = @ \o v.data, !.offset = NextOffset(f, v)])
                      /\ UNCHANGED templates
                 ELSE /\ templates' = [templates EXCEPT ![f.template] = f.data \o v.data]
                      /\ Return(c, f.template)
         \/ (Is(c, "error") \/ Is(c, "thrown")) /\ Throw(c) /\ UNCHANGED templates
      /\ UNCHANGED <<symbolId, highest, tags, attributes, listed>>

-----------------------------------------------------------------------------
(* The numbers of a set, in increasing order.                                *)
InOrder(numbers) ==
  CHOOSE s \in [1 .. Cardinality(numbers) -> numbers] :
    \A i, j \in 1 .. Cardinality(numbers) : i < j => s[i] < s[j]

(* The symbols of a page that readTag reads, in the order of the page.       *)
Readable(ids) ==
  LET at == InOrder({i \in DOMAIN ids : ids[i] \notin System})
  IN  [k \in DOMAIN at |-> ids[at[k]]]

(* readTag: the read itself, the fragments of a value that did not fit, and  *)
(* for a program, whose value is empty, a read of each of its tags.  A value *)
(* that is not empty is rejected: no type is decoded from it.                *)
NextName(c, f) ==
  CASE f.names # <<>> ->
         Enter(c, [f EXCEPT !.at = "name", !.names = Tail(@)],
               Read(f.tag \o <<Head(f.names)>>, FALSE, "none"))
    [] f.names = <<>> /\ f.more -> Send(c, [f EXCEPT !.at = "page"])
    [] OTHER -> Return(c, 1)

ReadRuns(c) ==
  LET f == Top(c)
      v == value[c]
      ask == [f EXCEPT !.at = "request"]
      fragments == [f EXCEPT !.at = "fragment", !.offset = 0]
  IN  /\ Runs(c, "read")
      /\ \/ /\ Is(c, "started")
            /\ CASE f.elements = "invalid" -> Throw(c)
                 [] f.elements = "given" \/ (f.elements = "none" /\ f.number) -> Send(c, ask)
                 [] OTHER -> Enter(c, [f EXCEPT !.at = "size"], Size(<<>>, f.tag))
         \/ f.at = "size" /\ Is(c, "returned") /\ Send(c, ask)
         \/ /\ f.at = "request" /\ Is(c, "reply")
            /\ CASE v.partial -> Send(c, fragments)
                 [] ~v.partial /\ v.data # <<>> -> Throw(c)
                 [] OTHER -> Enter(c, [f EXCEPT !.at = "info"], Info(<<>>, f.tag, f.number))
         \/ /\ f.at = "info" /\ Is(c, "returned")
            /\ IF v.value = "program" /\ ~f.number
                 THEN Send(c, [f EXCEPT !.at = "page"]) ELSE Return(c, 1)
         \/ /\ GotPage(c)
            /\ NextName(c, [Page(f, v) EXCEPT !.names = Readable(v.data),
                                              !.more = MorePages(v)])
         \/ f.at = "name" /\ Is(c, "returned") /\ NextName(c, f)
         \/ GivesUp(c) /\ Return(c, 1)
         \/ f.at = "request" /\ Is(c, "error") /\ Throw(c)
         \/ Is(c, "thrown") /\ Throw(c)
      /\ UNCHANGED <<caches, listed>>

(* readTagFragmented: the next reply's type is looked for where the offset   *)
(* of its request points, beyond its end (it throws) or at bytes of the      *)
(* value, whose segment ends anywhere; the next offset is what follows it.   *)
FragmentRuns(c) ==
  LET f == Top(c)
      v == value[c]
      length == 2 + Len(v.data)
  IN  /\ Runs(c, "read") /\ f.at = "fragment"
      /\ \/ Is(c, "error") /\ Throw(c)
         \/ Is(c, "reply") /\ (f.offset > 0 \/ ~v.partial) /\ Throw(c)
         \/ /\ Is(c, "reply") /\ v.partial
            /\ \E end \in IF f.offset = 0 THEN {2} ELSE f.offset + 2 .. length :
                 Send(c, [f EXCEPT !.offset = length - end])
      /\ UNCHANGED <<caches, listed>>

(* writeTag: of a symbol whose type is not found, or of a value that cannot  *)
(* be encoded in it, an exception that nobody catches.                       *)
WriteRuns(c) ==
  LET f == Top(c)
      v == value[c]
  IN  /\ Runs(c, "write")
      /\ \/ Is(c, "started") /\ Enter(c, f, Info(<<>>, f.tag, f.number))
         \/ Is(c, "returned") /\ v.value \in Templates /\ Throw(c)
         \/ Is(c, "returned") /\ v.value = "atomic" /\ Send(c, [f EXCEPT !.at = "request"])
         \/ Is(c, "returned") /\ v.value \notin Templates /\ Lose(c)
         \/ Is(c, "reply") /\ Return(c, 1)
         \/ Is(c, "error") /\ Throw(c)
      /\ UNCHANGED <<caches, listed>>

(* listTags: the caller takes each tag, and may stop after any.              *)
ListRuns(c) ==
  LET f == Top(c)
      v == value[c]
      Take(n, how) ==
        listed' = [listed EXCEPT ![c].ids = @ \o SubSeq(v.data, 1, n), ![c].ended = how]
  IN  /\ Runs(c, "list")
      /\ \/ /\ Is(c, "started") /\ Send(c, [f EXCEPT !.at = "page"])
            /\ listed' = [listed EXCEPT ![c].scope = f.scope]
         \/ /\ GotPage(c)
            /\ IF MorePages(v) THEN Send(c, Page(f, v)) /\ Take(Len(v.data), "no")
                               ELSE Return(c, 1) /\ Take(Len(v.data), "done")
         \/ GotPage(c) /\ \E n \in DOMAIN v.data : Return(c, 1) /\ Take(n, "stopped")
         \/ GivesUp(c) /\ Return(c, 1) /\ listed' = [listed EXCEPT ![c].ended = "gave up"]
      /\ UNCHANGED caches

(* readModifyWriteTag, whose masks may be invalid; readControllerAttributes; *)
(* readTemplateClassAttributes, which lets the error of its request escape.  *)
SingleRuns(c) ==
  /\ stack[c] # <<>> /\ Top(c).fn \in {"modify", "controller", "class"} /\ ~Is(c, "waiting")
  /\ \/ Is(c, "started") /\ Top(c).fn = "modify" /\ Throw(c)
     \/ Is(c, "started") /\ Send(c, [Top(c) EXCEPT !.at = "request"])
     \/ Is(c, "reply") /\ Return(c, 1)
     \/ Is(c, "error") /\ IF Top(c).fn = "class" THEN Lose(c) ELSE Throw(c)
  /\ UNCHANGED <<caches, listed>>

Runnable(c) == stack[c] # <<>> /\ ~Is(c, "waiting")
Quiet == \A c \in Calls : ~Runnable(c)

Run(c) ==
  \/ Retry(c) \/ LookupRuns(c) \/ InfoRuns(c) \/ AttributesRun(c) \/ SizeRuns(c)
  \/ TemplateAttributesRun(c) \/ TemplateRuns(c) \/ ReadRuns(c) \/ FragmentRuns(c)
  \/ WriteRuns(c) \/ ListRuns(c) \/ SingleRuns(c)

(* The program calls a method.                                               *)
Start(c) ==
  /\ Quiet /\ outcome[c] = "idle"
  /\ \E f \in Operations : stack' = [stack EXCEPT ![c] = <<f>>]
  /\ value' = [value EXCEPT ![c] = Started]
  /\ outcome' = [outcome EXCEPT ![c] = "pending"]
  /\ UNCHANGED <<caches, listed>>

-----------------------------------------------------------------------------
(* The device.  A page is as many of the next symbols as it likes, by id.    *)
Following(scope, from) == InOrder({i \in Ids[scope] : i >= from})
Known(tag) == tag[1] \in Ids[<<>>]
IsProgram(tag) == Len(tag) = 1 /\ TypeOf[<<>>][tag[1]] = "program"
Piece(from, size) == [i \in 1 .. size - from |-> from + i]

Pages(f) ==
  LET rest == IF f.scope \in Scopes THEN Following(f.scope, f.from) ELSE <<>>
  IN  IF f.scope \in Scopes
        THEN {Reply(FALSE, rest)}
               \cup {Reply(TRUE, SubSeq(rest, 1, n)) : n \in 1 .. Len(rest) - 1}
        ELSE {}

Values(f) ==
  LET large == f.tag[1] \in Large /\ ~IsProgram(f.tag)
  IN  CASE ~Known(f.tag) \/ (large /\ f.offset >= TagBytes) -> {}
        [] Known(f.tag) /\ IsProgram(f.tag) -> {Reply(FALSE, <<>>)}
        [] Known(f.tag) /\ ~large /\ ~IsProgram(f.tag) -> {Reply(FALSE, <<1>>)}
        [] OTHER -> LET rest == Piece(f.offset, TagBytes)
                    IN  {IF Len(rest) > Fit THEN Reply(TRUE, SubSeq(rest, 1, Fit))
                                            ELSE Reply(FALSE, rest)}

Chunks(f) ==
  LET rest == Piece(f.offset, Bytes[f.template])
  IN  {Reply(FALSE, rest)} \cup {Reply(TRUE, SubSeq(rest, 1, n)) : n \in 1 .. Len(rest) - 1}

Answers(f) ==
  CASE f.at = "page" -> Pages(f)
    [] f.at \in {"request", "fragment"} /\ f.fn = "read" -> Values(f)
    [] f.at = "chunk" -> Chunks(f)
    [] f.fn = "attributes" -> IF f.scope \in Scopes /\ f.id \in Ids[f.scope]
                                THEN {Reply(FALSE, <<f.id>>)} ELSE {}
    [] OTHER -> {Reply(FALSE, <<>>)}

(* The reply to the request of a call, in any order among the calls.         *)
Answer(c) ==
  /\ Quiet /\ stack[c] # <<>>
  /\ LET answers == Answers(Top(c))
         refused == IF MayRefuse \/ answers = {} THEN {Error} ELSE {}
     IN  \E v \in answers \cup refused : value' = [value EXCEPT ![c] = v]
  /\ UNCHANGED <<stack, outcome, caches, listed>>

Next == \E c \in Calls : Start(c) \/ Run(c) \/ Answer(c)

Spec == Init /\ [][Next]_vars

(* Functions run when they can, and the layers below settle every request:   *)
(* replies that are due take turns, whatever runs between them.              *)
FairSpec == Spec /\ \A c \in Calls : WF_vars(Run(c)) /\ SF_vars(Answer(c))
-----------------------------------------------------------------------------
Frames(c) == {stack[c][i] : i \in DOMAIN stack[c]}
Functions == {"lookup", "info", "attributes", "size", "template", "template attributes", "read",
              "write", "list", "modify", "controller", "class"}

TypeOK ==
  /\ \A c \in Calls :
       /\ \A f \in Frames(c) :
            /\ f.fn \in Functions
            /\ f.fn \in {"lookup", "info", "read", "list"} => f.from \in Nat /\ f.retry \in 0 .. MaxRetry
            /\ f.fn \in {"template", "template attributes"} => f.template \in Templates
       /\ value[c].is \in {"started", "waiting", "thrown", "error", "returned", "reply"}
       /\ stack[c] = <<>> => outcome[c] # "pending" /\ Is(c, "waiting")
  /\ outcome \in [Calls -> {"idle", "pending", "resolved", "rejected", "lost"}]
  /\ symbolId \in [Scopes -> Nat \cup {None}] /\ highest \in [Scopes -> Nat \cup {None}]
  /\ tags \in [Scopes -> Types \cup {NoType}]
  /\ attributes \subseteq Templates /\ templates \in [Templates -> Seq(Nat)]
  /\ \A c \in Calls : listed[c].ended \in {"no", "done", "stopped", "gave up"}

(* listTags yields the symbols of its scope in order, none twice and none    *)
(* left out, whatever the device's pages and refusals; all of them when it   *)
(* ends, unless the caller stops or MAX_RETRY retries in a row fail.         *)
ListIsComplete ==
  \A c \in Calls : listed[c].ids # <<>> \/ listed[c].ended = "done" =>
    LET all == Following(listed[c].scope, 0)
    IN  IsPrefix(listed[c].ids, all) /\ (listed[c].ended = "done" => listed[c].ids = all)

(* A template on file was built from its whole definition, the chunks in     *)
(* their order, also when several calls read it at once and some fail.       *)
TemplateIsWhole ==
  \A t \in Templates : templates[t] # <<>> => templates[t] = Piece(0, Bytes[t])

(* Every call ends, resolved or rejected, except one that an escaped         *)
(* exception leaves behind, and a read that needs more than one fragment,    *)
(* which may go round for ever.                                              *)
Fragmented(c) == \E f \in Frames(c) : f.fn = "read" /\ f.offset > 0
CallsEnd ==
  \A c \in Calls : outcome[c] = "pending" ~> (outcome[c] # "pending" \/ Fragmented(c))

(* What the layer asks about a symbol is asked about the one that was named. *)
InfoIsOfTheTag ==
  \A c \in Calls : \A f \in Frames(c) :
    f.fn \in {"attributes", "info"} /\ f.id # None => f.tag = <<f.id>>
=============================================================================
