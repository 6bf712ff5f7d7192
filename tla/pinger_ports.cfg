CONSTANTS
    e4 = e4
    e6 = e6
    tcp = tcp
    udp = udp
    dns = dns
    pod = pod
    node = node
    Addresses = {e4, e6, tcp, udp, dns, pod, node}
    Pods = {pod}
    Nodes = {node}
    Family <- MCFamily
    Empty = Empty
    API = API
    Configs <- MCConfigs
    Budget = 2
SPECIFICATION Spec
INVARIANT ErrorsAreReal
\* A process that has exited for good does nothing more.
CHECK_DEADLOCK FALSE
