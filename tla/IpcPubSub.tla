----------------------------- MODULE IpcPubSub -----------------------------
(***************************************************************************)
(* The handles of lib/libipc/ipc_pubsub.c, and the buffer in which         *)
(* ipc_build_topic returns its names: a static one, so that every name it  *)
(* ever returned is read as the text of the last call.                     *)
(*                                                                         *)
(* The kernel behind the system calls is external: it knows a topic from a *)
(* registration to an unregistration, and it may fail at any call.  The    *)
(* counters of the handles, which only statistics read, are left out, and  *)
(* so is ipc_subscriber_receive, which changes nothing else: received_size *)
(* stays 0 (ipc_pubsub.c:238).                                             *)
(***************************************************************************)
EXTENDS IpcTopics

CONSTANTS
  Subscriber,       \* the subscriber handles a client may hold
  Request,          \* the parameters handed to ipc_build_topic
  Literal,          \* the names a client writes down itself
  Refusal           \* the sets of topics the kernel may refuse to ipc_init

\* The topic of the test cases that ipc_init adds
TestTopic == <<"application", "vehicle", "control">>

ASSUME TopicAssumption ==
  /\ Request \subseteq Nat \X Nat \X Nat
  /\ Literal \subseteq Seq(STRING)

VARIABLES
  topic_buffer,   \* the static buffer of ipc_build_topic
  known,          \* the topics the kernel knows
  publisher,      \* the topic of the publisher handle, or NoTopic
  subscribers     \* the topics of the subscriber handles, or NoTopic

pubsubVars == <<topic_buffer, known, publisher, subscribers>>

\* What the buffer may hold, and the names that clients write down or have
\* built and that the library adds by itself
Text == {Buffered(r[1], r[2], r[3]) : r \in Request} \cup {EmptyTopic}
Name == Literal \cup Text \cup Predefined \cup {TestTopic}

PubSubTypeOK ==
  /\ topic_buffer \in Text /\ known \subseteq Name
  /\ publisher \in Name \cup {NoTopic}
  /\ subscribers \in [Subscriber -> Name \cup {NoTopic}]
-----------------------------------------------------------------------------
\* A faulty check that trusts the names of the library's own buffer.
UsableUnlessBuilt(topic) ==
  \/ topic = topic_buffer
  \/ Validate(topic) = "VALID" /\ topic \notin LongTopic

\* The checks of ipc_create_publisher and ipc_create_subscriber; they refuse
\* a name of 64 characters, which validation accepts.
Usable(topic) == Validate(topic) = "VALID" /\ topic \notin LongTopic

\* What a client may hand over: its own name, or a name that was built, which
\* is read from the buffer as it is now.
Given == Literal \cup {topic_buffer}

PubSubInit ==
  /\ topic_buffer = EmptyTopic
  /\ known = {}
  /\ publisher = NoTopic
  /\ subscribers = [s \in Subscriber |-> NoTopic]

\* ipc_init
LibraryInit(refused) ==
  /\ known' = known \cup
       {t \in Predefined \cup {TestTopic} :
          Validate(t) = "VALID" /\ t \notin refused}
  /\ UNCHANGED <<topic_buffer, publisher, subscribers>>

\* ipc_build_topic
BuildTopic(category, system, logging) ==
  /\ topic_buffer' = Buffered(category, system, logging)
  /\ UNCHANGED <<known, publisher, subscribers>>

\* ipc_create_publisher, when the kernel registers the topic
CreatePublisher(topic) ==
  /\ publisher = NoTopic
  /\ Usable(topic)
  /\ publisher' = topic
  /\ known' = known \cup {topic}
  /\ UNCHANGED <<topic_buffer, subscribers>>

\* ipc_destroy_publisher leaves the topic registered.
DestroyPublisher ==
  /\ publisher # NoTopic
  /\ publisher' = NoTopic
  /\ UNCHANGED <<topic_buffer, known, subscribers>>

\* ipc_create_subscriber, when the kernel accepts the subscription; it does
\* not register the topic.
CreateSubscriber(s, topic) ==
  /\ subscribers[s] = NoTopic
  /\ Usable(topic)
  /\ subscribers' = [subscribers EXCEPT ![s] = topic]
  /\ UNCHANGED <<topic_buffer, known, publisher>>

\* ipc_destroy_subscriber unregisters the topic, whoever else uses it, and
\* does not look at the result.
DestroySubscriber(s) ==
  /\ subscribers[s] # NoTopic
  /\ subscribers' = [subscribers EXCEPT ![s] = NoTopic]
  /\ known' \in {known, known \ {subscribers[s]}}
  /\ UNCHANGED <<topic_buffer, publisher>>

PubSubNext ==
  \/ \E r \in Refusal : LibraryInit(r)
  \/ \E r \in Request : BuildTopic(r[1], r[2], r[3])
  \/ \E topic \in Given : CreatePublisher(topic)
  \/ DestroyPublisher
  \/ \E s \in Subscriber, topic \in Given : CreateSubscriber(s, topic)
  \/ \E s \in Subscriber : DestroySubscriber(s)
-----------------------------------------------------------------------------
\* What a topic must be: well-formed, not too long and not the kernel's own.
Admissible(topic) ==
  /\ Len(topic) = 3 /\ \A i \in 1 .. 3 : topic[i] # ""
  /\ topic[1] # "kernel"
  /\ topic \notin OverlongTopic

(* No malformed or overlong name and no name of the namespace "kernel"     *)
(* reaches the kernel or a handle (ipc_pubsub.c:45, 183, 335), although    *)
(* ipc_build_topic leaves names in its buffer that it refuses to return    *)
(* (ipc_topics.c:303), and a name that was fine when it was built may be   *)
(* another one by the time it is used.                                     *)
KnownAreValid ==
  /\ \A topic \in known : Admissible(topic)
  /\ publisher # NoTopic => Admissible(publisher)
  /\ \A s \in Subscriber :
       subscribers[s] # NoTopic => Admissible(subscribers[s])

\* Every name that is built, with the category it is built for
BuiltTopic ==
  {b \in {<<c, Build(c, s, l)>> : c \in 0 .. CategoryCount,
            s \in 0 .. SystemCount, l \in 0 .. LoggingCount} : b[2] # NoTopic}

(* Once ipc_init has registered all that it may (ipc_pubsub.c:335), every  *)
(* name that ipc_build_topic returns for any parameters is a topic the     *)
(* kernel knows, but for the two categories without a predefined topic,    *)
(* and its category is the one it was built for: the table of the topics   *)
(* (ipc_topics.c:90), the tables of the names and the cases of the         *)
(* construction are written down separately.                               *)
BuiltAreRegistered ==
  {t \in Predefined : Validate(t) = "VALID"} \subseteq known =>
    \A b \in BuiltTopic :
      /\ TopicCategory(b[2]) = b[1]
      /\ b[2] \in known \cup {<<n, "status", "overall">> :
                                n \in {"diagnostics", "power"}}
=============================================================================
