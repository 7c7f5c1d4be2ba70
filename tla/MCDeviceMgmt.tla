---------------------------- MODULE MCDeviceMgmt ----------------------------
(* DeviceMgmt and OperatedRegistry on small instances, for TLC.            *)
EXTENDS OperatedRegistry

\* The clients can be exchanged for each other; the deployer and address(0)
\* have roles of their own.
ClientSymmetry == Permutations(ClientAddr \ {Deployer})

\* Bound: at most one record has its receiver set, by update_data_receiver or
\* by the default.  States beyond the bound are checked but not left.
OneReceiver ==
    Cardinality({id \in DeviceId : id_to_device[id].dataReceiverID # 0}) <= 1

\* Bound: no record has its receiver set; nothing the contract decides depends
\* on that field.  States beyond the bound are checked but not left.
NoReceiver == \A id \in DeviceId : id_to_device[id].dataReceiverID = 0

=============================================================================
