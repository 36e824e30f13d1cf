------------------------------ MODULE NewsData ------------------------------
(***************************************************************************)
(* The data that flows from the publishers to the directory, reduced to    *)
(* what the programs' decisions depend on.                                 *)
(*                                                                         *)
(* A notice is an id (the number Random() makes from the clock) and an     *)
(* item (its group, head and body).  On the wire and in the queue it is a  *)
(* message; a message also has a form, because the receivers read until a  *)
(* short recv and so may get only a prefix of what was sent.               *)
(***************************************************************************)
EXTENDS Naturals

CONSTANTS Ids,     \* numbers Random() can return
          Items,   \* what an editor can type: group, head and body
          NoId,    \* id of a message that carries no notice
          NoItem   \* item of a message that carries no notice, or of no row

ASSUME IdsAssumption == Ids \subseteq Nat

ASSUME SentinelAssumption == NoId \notin Ids /\ NoItem \notin Items

\* A message that carries no notice, by what happened to it.
Blank(form) == [form |-> form, id |-> NoId, item |-> NoItem]

\* No message at all: a NULL BSTR, an empty receive buffer, the empty string.
Nothing == Blank("none")

\* The first message of a publisher (IPC_RPCPrepareHandShake).
Handshake == Blank("handshake")

\* What is left to receive of a message after its prefix has been read.
Remainder == Blank("remainder")

\* A prefix of a notice's XML that isValid refuses (fewer than 50 wide
\* characters), and one that isValid accepts and xmlReadMemory refuses.
Short == Blank("short")
Broken == Blank("broken")

\* The XML of a record whose strings are all empty: well formed, but with
\* elements that have no text node.
Hollow == Blank("hollow")

\* The XML of a notice, complete.
Whole(id, item) == [form |-> "whole", id |-> id, item |-> item]

WholeMessages == [form : {"whole"}, id : Ids, item : Items]

\* What can be in the queue, or in a program's hands after taking it out.
Messages == WholeMessages \cup {Short, Broken, Hollow}

\* What can be on a connection towards the server.
Segments == Messages \cup {Handshake, Remainder}

\* XmlParser::isValid: not NULL and not too short to be the XML of a notice.
IsValid(m) == m \notin {Nothing, Short}

\* XmlParser::ParseXml dereferences doc->children->...->content: NULL for a
\* document that did not parse and for an element without text.
ParseCrashes(m) == m \in {Broken, Hollow}

=============================================================================
