CONSTANTS
    IPs = {ip1, ip2}
    Geos = {Zero, g1, g2}
    Zero = Zero
    MaxResults = 4
SPECIFICATION Spec
INVARIANT BubblesGroupedByIP
