----------------------------- MODULE NetworkErrors -----------------------------
(***************************************************************************)
(* NetworkError: what the crate tells apart about an error.  The texts an  *)
(* error carries are left out.                                             *)
(***************************************************************************)

ConnectionErrors ==
    {"ConnectionFailed", "ConnectionTimeout", "ConnectionRefused", "ConnectionReset",
     "HandshakeFailed"}
MessageErrors ==
    {"SerializationError", "DeserializationError", "MessageParsingFailed",
     "MalformedMessage", "InvalidMessageFormat", "MessageTooLarge"}
PeerErrors == {"InvalidPeer", "PeerNotFound", "PeerDisconnected", "PeerUnhealthy"}
ConfigurationErrors == {"ConfigurationError", "InvalidConfiguration"}

\* The kinds no category of its own is made for, the old names of the
\* serialization errors among them.
OtherErrors ==
    {"Discovery", "DiscoveryError", "Serialization", "Deserialization", "InvalidMessage",
     "IoError", "TransportError", "NetworkPartition", "ShutdownInProgress", "Other"}

NetworkError ==
    ConnectionErrors \cup MessageErrors \cup PeerErrors \cup ConfigurationErrors
      \cup OtherErrors
      \cup {"OperationTimeout", "RateLimitExceeded", "ResourceExhaustion", "CriticalError"}

FromError(e) ==
    CASE e \in ConnectionErrors -> "Connection"
      [] e \in MessageErrors -> "Message"
      [] e \in PeerErrors -> "Peer"
      [] e \in ConfigurationErrors -> "Configuration"
      [] e = "OperationTimeout" -> "Timeout"
      [] e = "RateLimitExceeded" -> "RateLimit"
      [] e = "ResourceExhaustion" -> "Resource"
      [] e = "CriticalError" -> "Critical"
      [] OTHER -> "Other"

IsRecoverable(e) ==
    e \in {"ConnectionTimeout", "ConnectionReset", "OperationTimeout", "RateLimitExceeded",
           "PeerDisconnected", "NetworkPartition"}

RecoveryStrategy(e) ==
    CASE e \in {"ConnectionTimeout", "ConnectionReset"} -> "ExponentialBackoff"
      [] e = "RateLimitExceeded" -> "Throttle"
      [] e = "PeerDisconnected" -> "Reconnect"
      [] e = "OperationTimeout" -> "Retry"
      [] e = "NetworkPartition" -> "WaitAndRetry"
      [] e = "CriticalError" -> "Alert"
      [] e = "InvalidConfiguration" -> "FailStartup"
      [] OTHER -> "Log"
=============================================================================
