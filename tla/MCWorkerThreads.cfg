\* RPC_MAX_RETRIES is 3 in rpc.h; 2 already has a retransmission that is not
\* the last.  Two ring versions let a SET_NEIGHBOR change something.
CONSTANTS
  RPC_MAX_RETRIES = 2
  Rings = {r1, r2}
  InboxMax = 2
SPECIFICATION FairSpec
INVARIANTS SingleRecvOwner EvictionNotLost
PROPERTIES EvictionLeadsToRegistration ListenerResumes
